---- MODULE Spec2Model ----
(***************************************************************************)
(* The text-editing core of atlas: the Buffer (a rope of characters), the   *)
(* Cursor (anchor / active TextPosition and a preferred column) and the     *)
(* MultiCursor (cursors edited and moved together).                         *)
(*                                                                          *)
(* A buffer is a sequence of characters, each a one-character string.  The  *)
(* combining acute accent U+0301 is written "U+0301": it is the one         *)
(* character of the alphabet that joins the character before it into a      *)
(* grapheme cluster.  Offsets are 0-based as in the code; content[o + 1] is *)
(* the character at offset o.                                               *)
(*                                                                          *)
(* A panic of the code (a failed assert!, an out-of-range rope access, an   *)
(* arithmetic underflow) is modelled by the fault field: the operation that *)
(* panics sets it and the program stops.                                    *)
(***************************************************************************)
EXTENDS Integers, Sequences, FiniteSets, TLC

\* ------------------------------------------------------------------------
\* Bounds of the model
\* ------------------------------------------------------------------------

MaxLen == 6         \* insertions are not issued beyond this buffer length
MaxInitLen == 3     \* longest initial buffer of a session
MaxCursors == 2     \* add_cursor is not issued when it would leave more cursors
MaxSteps == 3       \* operations issued in one session
MotionMaxLen == 3   \* longest buffer a single motion is tried on

\* ------------------------------------------------------------------------
\* Characters
\* ------------------------------------------------------------------------

NL == "\n"
Acute == "U+0301"

\* char::is_alphanumeric or '_', over the characters the model uses
WordChars ==
    {"a", "b", "c", "d", "e", "f", "g", "h", "i", "j", "k", "l", "m",
     "n", "o", "p", "q", "r", "s", "t", "u", "v", "w", "x", "y", "z",
     "X", "0", "1", "_"}
SpaceChars == {" ", "\t", NL}
ExtendChars == {Acute}
Openers == {"\"", "'", "(", "[", "{", "<"}

Min(a, b) == IF a <= b THEN a ELSE b
Max(a, b) == IF a >= b THEN a ELSE b

\* char::is_whitespace
IsWhitespace(ch) == ch \in SpaceChars

\* get_char_class: "Whitespace", "Word" or "Punctuation"
get_char_class(ch, big_word) ==
    IF IsWhitespace(ch) THEN "Whitespace"
    ELSE IF big_word \/ ch \in WordChars THEN "Word"
    ELSE "Punctuation"

\* ------------------------------------------------------------------------
\* Rope
\* ------------------------------------------------------------------------

len_chars(content) == Len(content)

\* the offsets just after each line break, in increasing order
RECURSIVE LineStartsFrom(_, _)
LineStartsFrom(content, i) ==
    IF i > Len(content) THEN <<>>
    ELSE IF content[i] = NL THEN <<i>> \o LineStartsFrom(content, i + 1)
    ELSE LineStartsFrom(content, i + 1)

LineStarts(content) == <<0>> \o LineStartsFrom(content, 1)

len_lines(content) == Len(LineStarts(content))

\* Rope::line_to_char, line <= len_lines
line_to_char(content, line) ==
    IF line >= len_lines(content) THEN Len(content)
    ELSE LineStarts(content)[line + 1]

\* Rope::char_to_line, offset <= len_chars
char_to_line(content, offset) ==
    Cardinality({i \in 1..offset : content[i] = NL})

\* Rope::char
char_at(content, offset) == content[offset + 1]

\* Rope::slice(from..to) as a sequence
Slice(content, from, to) == SubSeq(content, from + 1, to)

\* Rope::insert / insert_char
RopeInsert(content, offset, s) ==
    Slice(content, 0, offset) \o s \o Slice(content, offset, Len(content))

\* Rope::remove(from..to)
RopeRemove(content, from, to) ==
    Slice(content, 0, from) \o Slice(content, to, Len(content))

\* ------------------------------------------------------------------------
\* Grapheme clusters (unicode_segmentation, extended clusters)
\* ------------------------------------------------------------------------

\* no cluster boundary before s[i]: an Extend character joins the character
\* before it unless that one is a line break
JoinsPrev(s, i) == i > 1 /\ s[i] \in ExtendChars /\ s[i - 1] # NL

\* the 0-based indices at which the clusters of s start
GraphemeStarts(s) == {i - 1 : i \in {j \in 1..Len(s) : ~JoinsPrev(s, j)}}

\* s.graphemes(true).count()
GraphemeCount(s) == Cardinality(GraphemeStarts(s))

\* ------------------------------------------------------------------------
\* Buffer: read accessors
\* ------------------------------------------------------------------------

RECURSIVE TrimEnd(_)
TrimEnd(s) ==
    IF Len(s) > 0 /\ s[Len(s)] \in {NL, "\r"} THEN TrimEnd(SubSeq(s, 1, Len(s) - 1))
    ELSE s

\* line < len_lines
visible_line_content(content, line) ==
    TrimEnd(Slice(content, line_to_char(content, line), line_to_char(content, line + 1)))

grapheme_len(content, line) == GraphemeCount(visible_line_content(content, line))

\* line < len_lines and col <= grapheme_len(line): the number of characters in
\* the first col clusters of the line, added to the line's start
grapheme_col_to_offset(content, line, col) ==
    LET v == visible_line_content(content, line)
        starts == GraphemeStarts(v)
        chars == IF col >= Cardinality(starts) THEN Len(v)
                 ELSE CHOOSE b \in starts : Cardinality({x \in starts : x < b}) = col
    IN line_to_char(content, line) + chars

validate_offset(content, offset) == offset <= len_chars(content)

\* the three assertions of validate_position and the two of
\* grapheme_col_to_offset all pass
validate_position(content, pos) ==
    /\ pos.line < len_lines(content)
    /\ pos.offset <= len_chars(content)
    /\ pos.col <= grapheme_len(content, pos.line)
    /\ pos.offset = grapheme_col_to_offset(content, pos.line, pos.col)

\* prev_grapheme_offset as it would be if it stepped back one character
\* without looking at the start of the buffer
PrevCharOffset(content, offset) == offset - 1

\* offset <= len_chars
prev_grapheme_offset(content, offset) ==
    IF offset = 0 THEN 0
    ELSE LET starts == GraphemeStarts(Slice(content, 0, offset))
         IN CHOOSE b \in starts : \A x \in starts : x <= b

\* next_grapheme_offset as it would be if it stepped over one character
NextCharOffset(content, offset) == Min(offset + 1, len_chars(content))

\* offset <= len_chars
next_grapheme_offset(content, offset) ==
    LET total == len_chars(content)
        slice == Slice(content, offset, total)
        later == {b \in GraphemeStarts(slice) : b > 0}
    IN IF offset >= total THEN total
       ELSE IF later = {} THEN offset + Len(slice)
       ELSE offset + (CHOOSE b \in later : \A x \in later : b <= x)

\* ------------------------------------------------------------------------
\* TextPosition, Cursor
\* ------------------------------------------------------------------------

Modes == {"Normal", "Insert", "Visual"}

\* TextPosition::new
Pos(line, col, offset) == [line |-> line, col |-> col, offset |-> offset]

\* Option values: <<>> is None, <<v>> is Some(v)
None == <<>>
Some(v) == <<v>>

\* Cursor::new
NewCursor ==
    [anchor |-> Pos(0, 0, 0), active |-> Pos(0, 0, 0), preferred_column |-> None]

\* Cursor::position
position(cur) == cur.active

\* Cursor::has_selection
has_selection(cur) == cur.anchor # cur.active

\* Cursor::get_selection_range: <<start, end>>
get_selection_range(cur) ==
    IF cur.anchor.offset <= cur.active.offset THEN <<cur.anchor, cur.active>>
    ELSE <<cur.active, cur.anchor>>

\* the outcome of a motion: the cursor afterwards, the value returned and the
\* panic that ended it, if any
Moved(cur, pos) == [cur |-> cur, ret |-> Some(pos), fault |-> "none"]
NoMove(cur) == [cur |-> cur, ret |-> None, fault |-> "none"]
Panic(cur, why) == [cur |-> cur, ret |-> None, fault |-> why]

\* the body of Cursor::move_to once its first validate_position has passed
MoveToSet(cur, dest, anchor, update_preferred_col, content) ==
    LET line == Min(dest.line, Max(len_lines(content) - 1, 0))
        col == Min(dest.col, grapheme_len(content, line))
        off == grapheme_col_to_offset(content, line, col)
        d == Pos(line, col, off)
    IN [anchor |-> IF anchor = None THEN d ELSE anchor[1],
        active |-> d,
        preferred_column |->
            IF update_preferred_col THEN Some(d.col) ELSE cur.preferred_column]

\* Cursor::move_to
move_to(cur, dest, anchor, update_preferred_col, content) ==
    IF ~validate_position(content, dest) THEN Panic(cur, "validate_position")
    ELSE LET c == MoveToSet(cur, dest, anchor, update_preferred_col, content)
         IN Moved(c, c.active)

\* get_max_col as it would be if every mode allowed the column past the last
\* cluster
GetMaxColPastEnd(mode, content, target) == grapheme_len(content, target)

\* Cursor::get_max_col
get_max_col(mode, content, target) ==
    IF mode \in {"Normal", "Visual"}
    THEN (IF grapheme_len(content, target) = 0 THEN 0
          ELSE grapheme_len(content, target) - 1)
    ELSE grapheme_len(content, target)

\* the anchor argument as it would be if no mode kept the selection
NeverKeepAnchor(cur, mode) == None

\* anchor: if mode == Visual { Some(self.anchor) } else { None }
KeepAnchor(cur, mode) == IF mode = "Visual" THEN Some(cur.anchor) ELSE None

\* move_left as it would be if the selection were collapsed before the
\* column is looked at
MoveLeftCollapsesFirst(cur, content, mode) ==
    LET at == position(cur) IN
    IF ~validate_position(content, at) THEN Panic(cur, "validate_position")
    ELSE IF at.col = 0 THEN NoMove([cur EXCEPT !.anchor = cur.active])
    ELSE LET new_col == at.col - 1
             new_pos == Pos(at.line, new_col,
                            grapheme_col_to_offset(content, at.line, new_col))
         IN move_to(cur, new_pos, KeepAnchor(cur, mode), TRUE, content)

\* Cursor::move_left
move_left(cur, content, mode) ==
    LET at == position(cur) IN
    IF ~validate_position(content, at) THEN Panic(cur, "validate_position")
    ELSE IF at.col = 0 THEN NoMove(cur)
    ELSE LET new_col == at.col - 1
             new_pos == Pos(at.line, new_col,
                            grapheme_col_to_offset(content, at.line, new_col))
         IN move_to(cur, new_pos, KeepAnchor(cur, mode), TRUE, content)

\* Cursor::move_right
move_right(cur, content, mode) ==
    LET at == position(cur) IN
    IF ~validate_position(content, at) THEN Panic(cur, "validate_position")
    ELSE IF at.col >= get_max_col(mode, content, at.line) THEN NoMove(cur)
    ELSE LET new_col == at.col + 1
             new_pos == Pos(at.line, new_col,
                            grapheme_col_to_offset(content, at.line, new_col))
         IN move_to(cur, new_pos, KeepAnchor(cur, mode), TRUE, content)

\* MoveVertical as it would be if the move updated preferred_column
MoveVerticalUpdatesPreferred(cur, content, mode, target_line) ==
    LET at == position(cur)
        target_col == IF cur.preferred_column = None THEN at.col
                      ELSE cur.preferred_column[1]
        new_col == Min(target_col, get_max_col(mode, content, target_line))
        new_pos == Pos(target_line, new_col,
                       grapheme_col_to_offset(content, target_line, new_col))
    IN move_to(cur, new_pos, KeepAnchor(cur, mode), TRUE, content)

\* the shared tail of move_up and move_down
MoveVertical(cur, content, mode, target_line) ==
    LET at == position(cur)
        target_col == IF cur.preferred_column = None THEN at.col
                      ELSE cur.preferred_column[1]
        new_col == Min(target_col, get_max_col(mode, content, target_line))
        new_pos == Pos(target_line, new_col,
                       grapheme_col_to_offset(content, target_line, new_col))
    IN move_to(cur, new_pos, KeepAnchor(cur, mode), FALSE, content)

\* Cursor::move_up
move_up(cur, content, mode) ==
    LET at == position(cur) IN
    IF ~validate_position(content, at) THEN Panic(cur, "validate_position")
    ELSE IF at.line = 0 THEN NoMove(cur)
    ELSE MoveVertical(cur, content, mode, at.line - 1)

\* Cursor::move_down
move_down(cur, content, mode) ==
    LET at == position(cur) IN
    IF ~validate_position(content, at) THEN Panic(cur, "validate_position")
    ELSE IF at.line + 1 >= len_lines(content) THEN NoMove(cur)
    ELSE MoveVertical(cur, content, mode, at.line + 1)

\* the TextPosition the word motions build from a character offset: the
\* column is the distance in characters from the line's start
CharPos(content, off) ==
    LET line == char_to_line(content, off)
    IN Pos(line, off - line_to_char(content, line), off)

\* ------------------------------------------------------------------------
\* Word motions
\* ------------------------------------------------------------------------

\* while off < total && class(char(off)) == cls { off += 1 }
RECURSIVE SkipClass(_, _, _, _)
SkipClass(content, off, cls, big_word) ==
    IF off < Len(content) /\ get_char_class(char_at(content, off), big_word) = cls
    THEN SkipClass(content, off + 1, cls, big_word)
    ELSE off

\* the whitespace loop of move_word_forward: a line break followed by an
\* indented line stops at the indentation
RECURSIVE ForwardSkipSpace(_, _)
ForwardSkipSpace(content, off) ==
    IF off < Len(content) /\ IsWhitespace(char_at(content, off))
    THEN IF char_at(content, off) = NL
         THEN LET nxt == off + 1 IN
              IF /\ nxt < Len(content)
                 /\ char_at(content, nxt) \in {"\t", " "}
                 /\ nxt = line_to_char(content, char_to_line(content, nxt))
              THEN nxt
              ELSE ForwardSkipSpace(content, nxt)
         ELSE ForwardSkipSpace(content, off + 1)
    ELSE off

\* the run loop of move_word_forward as it would be if the motion stopped on
\* the first character of the run it landed on
StayOnLanded(content, off, cls, big_word) == off

\* while off + 1 < total && char(off + 1) != '\n' && class(char(off + 1)) == cls
RECURSIVE ExtendRun(_, _, _, _)
ExtendRun(content, off, cls, big_word) ==
    IF /\ off + 1 < Len(content)
       /\ char_at(content, off + 1) # NL
       /\ get_char_class(char_at(content, off + 1), big_word) = cls
    THEN ExtendRun(content, off + 1, cls, big_word)
    ELSE off

\* off + 1 < total, char(off + 1) is not a line break and is whitespace
SpaceFollows(content, off, big_word) ==
    /\ off + 1 < Len(content)
    /\ char_at(content, off + 1) # NL
    /\ get_char_class(char_at(content, off + 1), big_word) = "Whitespace"

\* while off < total && char(off).is_whitespace() && char(off) != '\n'
RECURSIVE SkipBlanks(_, _)
SkipBlanks(content, off) ==
    IF /\ off < Len(content)
       /\ IsWhitespace(char_at(content, off))
       /\ char_at(content, off) # NL
    THEN SkipBlanks(content, off + 1)
    ELSE off

\* move_word_forward from the landed character on: the match on the landed
\* class, the step over a line break and the big-word blank skip
ForwardLand(content, off, cur_class, big_word) ==
    LET total == Len(content)
        landed_class == get_char_class(char_at(content, off), big_word)
        o1 == IF landed_class = "Word"
              THEN LET r == ExtendRun(content, off, "Word", big_word)
                   IN IF cur_class = "Punctuation" /\ SpaceFollows(content, r, big_word)
                      THEN r + 1 ELSE r
              ELSE IF landed_class = "Punctuation"
              THEN LET r == ExtendRun(content, off, "Punctuation", big_word)
                   IN IF SpaceFollows(content, r, big_word) THEN r + 1 ELSE r
              ELSE off
        o2 == IF o1 < total /\ char_at(content, o1) = NL /\ o1 + 1 < total
              THEN o1 + 1 ELSE o1
    IN IF big_word THEN SkipBlanks(content, o2) ELSE o2

\* Cursor::move_word_forward
move_word_forward(cur, content, big_word, mode) ==
    LET total == Len(content)
        start == position(cur)
    IN
    IF ~validate_position(content, start) THEN Panic(cur, "validate_position")
    ELSE IF start.offset >= total THEN NoMove(cur)
    ELSE
    LET cur_class == get_char_class(char_at(content, start.offset), big_word)
        o1 == SkipClass(content, start.offset, cur_class, big_word)
    IN
    IF o1 >= total THEN NoMove(cur)
    ELSE
    LET o2 == ForwardSkipSpace(content, o1) IN
    IF o2 >= total THEN NoMove(cur)
    ELSE
    LET off == ForwardLand(content, o2, cur_class, big_word) IN
    IF off >= total THEN NoMove(cur)
    ELSE
    LET dest == CharPos(content, off)
        end_class == get_char_class(char_at(content, off), big_word)
        keep_anchor == mode = "Visual" /\ cur_class = end_class
    IN
    IF ~validate_position(content, dest) THEN Panic(cur, "validate_position")
    ELSE move_to(cur, dest,
                 IF keep_anchor THEN Some(cur.anchor) ELSE Some(start),
                 TRUE, content)

\* while off > 0 { prev = char(off - 1); break on whitespace or on another
\* class than cls; off -= 1 }
RECURSIVE BackRun(_, _, _, _)
BackRun(content, off, cls, big_word) ==
    IF /\ off > 0
       /\ ~IsWhitespace(char_at(content, off - 1))
       /\ get_char_class(char_at(content, off - 1), big_word) = cls
    THEN BackRun(content, off - 1, cls, big_word)
    ELSE off

\* while off > 0 { prev = char(off - 1); break unless it is whitespace other
\* than a line break; off -= 1 }
RECURSIVE BackBlanks(_, _)
BackBlanks(content, off) ==
    IF /\ off > 0
       /\ IsWhitespace(char_at(content, off - 1))
       /\ char_at(content, off - 1) # NL
    THEN BackBlanks(content, off - 1)
    ELSE off

\* the scan of move_word_backward as it would be if it never looked for an
\* opening quote or bracket
NoOpenerScan(content, scan_off, off, big_word) == off

\* the scan of move_word_backward from a line start back through
\* punctuation for an opening quote or bracket
RECURSIVE ScanOpeners(_, _, _, _)
ScanOpeners(content, scan_off, off, big_word) ==
    IF scan_off > 0
    THEN LET ch == char_at(content, scan_off) IN
         IF IsWhitespace(ch) THEN off
         ELSE IF get_char_class(ch, big_word) # "Punctuation" THEN off
         ELSE IF ch \in Openers THEN scan_off
         ELSE ScanOpeners(content, scan_off - 1, off, big_word)
    ELSE off

\* move_word_backward when the cursor is at the start of a word
BackFromWordStart(content, start, big_word) ==
    LET at_line_start == start.col = 0
        o1 == start.offset - 1
        off == IF char_at(content, o1) = NL /\ o1 > 0 THEN o1 - 1 ELSE o1
        char_class == get_char_class(char_at(content, off), big_word)
    IN
    IF char_class = "Whitespace"
    THEN LET o2 == BackBlanks(content, off)
             whitespace_len == off - o2 + 1
             at_line_beginning == o2 = line_to_char(content, char_to_line(content, o2))
         IN IF whitespace_len = 1 /\ ~at_line_beginning /\ o2 > 0
            THEN LET o3 == o2 - 1
                     new_class == get_char_class(char_at(content, o3), big_word)
                 IN IF new_class = "Word"
                    THEN BackRun(content, o3, new_class, big_word)
                    ELSE IF new_class = "Punctuation" /\ ~big_word
                    THEN BackRun(content, o3, "Punctuation", big_word)
                    ELSE o3
            ELSE o2
    ELSE IF char_class = "Punctuation"
    THEN IF at_line_start /\ ~big_word
         THEN ScanOpeners(content, off, off, big_word)
         ELSE IF ~big_word
         THEN BackRun(content, off, "Punctuation", big_word)
         ELSE BackRun(content, off, char_class, big_word)
    ELSE BackRun(content, off, char_class, big_word)

\* Cursor::move_word_backward
move_word_backward(cur, content, big_word, mode) ==
    LET start == position(cur) IN
    IF ~validate_position(content, start) THEN Panic(cur, "validate_position")
    ELSE IF start.offset = 0 THEN NoMove(cur)
    ELSE IF start.offset >= Len(content) THEN Panic(cur, "char")
    ELSE
    LET cur_class == get_char_class(char_at(content, start.offset), big_word)
        prev_char == char_at(content, start.offset - 1)
        prev_class == get_char_class(prev_char, big_word)
        at_word_start ==
            \/ IsWhitespace(prev_char)
            \/ prev_char = NL
            \/ (~big_word /\ cur_class = "Punctuation")
            \/ cur_class # prev_class
        off == IF ~at_word_start
               THEN (IF ~big_word /\ cur_class = "Punctuation" THEN start.offset
                     ELSE BackRun(content, start.offset, cur_class, big_word))
               ELSE BackFromWordStart(content, start, big_word)
        dest == CharPos(content, off)
    IN
    IF ~validate_position(content, dest) THEN Panic(cur, "validate_position")
    ELSE move_to(cur, dest,
                 IF mode = "Visual" THEN Some(cur.anchor) ELSE Some(start),
                 TRUE, content)

\* the last index of the run of class cls that starts at char_idx
RECURSIVE RunEnd(_, _, _, _)
RunEnd(content, char_idx, cls, big_word) ==
    IF /\ char_idx + 1 < Len(content)
       /\ get_char_class(char_at(content, char_idx + 1), big_word) = cls
    THEN RunEnd(content, char_idx + 1, cls, big_word)
    ELSE char_idx

\* Cursor::move_word_end
move_word_end(cur, content, big_word, mode) ==
    LET total_chars == Len(content)
        initial_pos == position(cur)
    IN
    IF ~validate_position(content, initial_pos) THEN Panic(cur, "validate_position")
    ELSE
    LET char_idx == line_to_char(content, initial_pos.line) + initial_pos.col IN
    IF char_idx >= total_chars THEN NoMove(cur)
    ELSE IF ~(char_idx + 1 < total_chars) THEN NoMove(cur)
    ELSE
    LET o1 == SkipClass(content, char_idx + 1, "Whitespace", big_word) IN
    IF o1 >= total_chars THEN NoMove(cur)
    ELSE
    LET current_class == get_char_class(char_at(content, o1), big_word)
        last_char_index == RunEnd(content, o1, current_class, big_word)
        new_pos == CharPos(content, last_char_index)
    IN
    IF ~validate_position(content, new_pos) THEN Panic(cur, "validate_position")
    ELSE move_to(cur, new_pos,
                 IF mode = "Visual" THEN Some(cur.anchor) ELSE Some(initial_pos),
                 TRUE, content)

\* adjust_for_mode as it would be if it pulled the cursor back in every mode
AdjustInEveryMode(cur, content, mode) ==
    LET at == position(cur)
        line_len == grapheme_len(content, at.line)
    IN IF at.line >= len_lines(content) THEN Panic(cur, "visible_line_content")
       ELSE IF line_len > 0 /\ at.col >= line_len
       THEN move_to(cur, Pos(at.line, line_len - 1,
                             grapheme_col_to_offset(content, at.line, line_len - 1)),
                    None, TRUE, content)
       ELSE NoMove(cur)

\* Cursor::adjust_for_mode
adjust_for_mode(cur, content, mode) ==
    IF mode = "Normal"
    THEN LET at == position(cur)
             line_len == grapheme_len(content, at.line)
         IN IF at.line >= len_lines(content) THEN Panic(cur, "visible_line_content")
            ELSE IF line_len > 0 /\ at.col >= line_len
            THEN LET new_col == line_len - 1
                     new_pos == Pos(at.line, new_col,
                                    grapheme_col_to_offset(content, at.line, new_col))
                 IN move_to(cur, new_pos, None, TRUE, content)
            ELSE NoMove(cur)
    ELSE NoMove(cur)

\* ------------------------------------------------------------------------
\* MultiCursor
\* ------------------------------------------------------------------------

Offsets(cursors) == [i \in DOMAIN cursors |-> cursors[i].active.offset]

\* the first failure of a sequence of outcomes, "none" when there is none
FirstFault(results) ==
    IF \A i \in DOMAIN results : results[i].fault = "none" THEN "none"
    ELSE results[CHOOSE i \in DOMAIN results :
                    /\ results[i].fault # "none"
                    /\ \A j \in 1..(i - 1) : results[j].fault = "none"].fault

\* the insertion of a sort that is not stable: cur goes before the cursors
\* of equal offset
InsertBeforeEqual(sorted, cur) ==
    SubSeq(sorted, 1, Cardinality({i \in DOMAIN sorted : sorted[i].active.offset < cur.active.offset}))
    \o <<cur>>
    \o SubSeq(sorted, Cardinality({i \in DOMAIN sorted : sorted[i].active.offset < cur.active.offset}) + 1, Len(sorted))

\* slice::sort_by_key on the active offset: stable
RECURSIVE InsertSorted(_, _)
InsertSorted(sorted, cur) ==
    IF sorted = <<>> THEN <<cur>>
    ELSE IF Head(sorted).active.offset <= cur.active.offset
    THEN <<Head(sorted)>> \o InsertSorted(Tail(sorted), cur)
    ELSE <<cur>> \o sorted

RECURSIVE SortByOffset(_)
SortByOffset(cursors) ==
    IF cursors = <<>> THEN <<>>
    ELSE InsertSorted(SortByOffset(SubSeq(cursors, 1, Len(cursors) - 1)),
                      cursors[Len(cursors)])

\* DedupByOffset as it would be if nothing were removed
DedupKeepsAll(cursors) == cursors

\* Vec::dedup_by_key on the active offset: of a run of equal keys the first
\* element stays
RECURSIVE DedupByOffset(_)
DedupByOffset(cursors) ==
    IF Len(cursors) <= 1 THEN cursors
    ELSE LET rest == DedupByOffset(Tail(cursors)) IN
         IF Head(rest).active.offset = Head(cursors).active.offset
         THEN <<Head(cursors)>> \o Tail(rest)
         ELSE <<Head(cursors)>> \o rest

\* FindOffset as it would be if the index were counted from the back of the
\* vector (iter().rev().position(...))
FindOffsetFromBack(cursors, primary_offset) ==
    LET hits == {i \in DOMAIN cursors : cursors[i].active.offset = primary_offset}
    IN IF hits = {} THEN None
       ELSE Some(Len(cursors) - (CHOOSE i \in hits : \A j \in hits : i >= j))

\* the search that restores primary_index: Some(first index whose offset is
\* primary_offset) or None
FindOffset(cursors, primary_offset) ==
    LET hits == {i \in DOMAIN cursors : cursors[i].active.offset = primary_offset}
    IN IF hits = {} THEN None
       ELSE Some((CHOOSE i \in hits : \A j \in hits : i <= j) - 1)

\* merge_overlapping as it would be if the primary's offset were read after
\* the sort
MergeReadsPrimaryAfterSort(cursors, primary_index) ==
    IF Len(cursors) <= 1
    THEN [cursors |-> cursors, primary_index |-> primary_index,
          merged |-> FALSE, found |-> TRUE]
    ELSE LET sorted == SortByOffset(cursors)
             primary_offset == sorted[primary_index + 1].active.offset
             kept == DedupByOffset(sorted)
             idx == FindOffset(kept, primary_offset)
         IN [cursors |-> kept,
             primary_index |-> IF idx = None THEN 0 ELSE idx[1],
             merged |-> TRUE, found |-> idx # None]

\* MultiCursor::merge_overlapping; found records whether the search for the
\* primary's offset succeeded
merge_overlapping(cursors, primary_index) ==
    IF Len(cursors) <= 1
    THEN [cursors |-> cursors, primary_index |-> primary_index,
          merged |-> FALSE, found |-> TRUE]
    ELSE LET primary_offset == cursors[primary_index + 1].active.offset
             kept == DedupByOffset(SortByOffset(cursors))
             idx == FindOffset(kept, primary_offset)
         IN [cursors |-> kept,
             primary_index |-> IF idx = None THEN 0 ELSE idx[1],
             merged |-> TRUE, found |-> idx # None]

Motions ==
    {"move_left", "move_right", "move_up", "move_down",
     "move_word_forward", "move_word_backward", "move_word_end"}

WordMotions == {"move_word_forward", "move_word_backward", "move_word_end"}

\* one cursor's motion, by name
CursorMotion(motion, cur, content, big_word, mode) ==
    CASE motion = "move_left" -> move_left(cur, content, mode)
      [] motion = "move_right" -> move_right(cur, content, mode)
      [] motion = "move_up" -> move_up(cur, content, mode)
      [] motion = "move_down" -> move_down(cur, content, mode)
      [] motion = "move_word_forward" -> move_word_forward(cur, content, big_word, mode)
      [] motion = "move_word_backward" -> move_word_backward(cur, content, big_word, mode)
      [] motion = "move_word_end" -> move_word_end(cur, content, big_word, mode)

\* the loop of a generated MultiCursor method: every cursor is moved
BroadcastMotion(motion, cursors, content, big_word, mode) ==
    [i \in DOMAIN cursors |-> CursorMotion(motion, cursors[i], content, big_word, mode)]

\* the outcome of an operation on the cursor set and the buffer
Outcome(content, cursors, primary_index, fault) ==
    [content |-> content, cursors |-> cursors,
     primary_index |-> primary_index, fault |-> fault]

\* the cursor set after self.merge_overlapping() on the buffer content
Merged(content, m) == Outcome(content, m.cursors, m.primary_index, "none")

\* the end of a loop over the cursors: the panic of the first cursor that
\* panicked, or else every cursor as its call left it
Collected(content, cursors, primary_index, results) ==
    IF FirstFault(results) # "none"
    THEN Outcome(content, cursors, primary_index, FirstFault(results))
    ELSE Outcome(content, [i \in DOMAIN cursors |-> results[i].cur], primary_index, "none")

\* ThenMerge as it would be if the merge removed the duplicates and left
\* primary_index as it was
ThenDedupOnly(out) ==
    IF out.fault # "none" THEN out
    ELSE Outcome(out.content, merge_overlapping(out.cursors, out.primary_index).cursors,
                 out.primary_index, "none")

\* the statement self.merge_overlapping() that ends a method
ThenMerge(out) ==
    IF out.fault # "none" THEN out
    ELSE Merged(out.content, merge_overlapping(out.cursors, out.primary_index))

\* generate_cursor_methods!: MultiCursor::move_left ... move_word_end
BatchMotion(motion, content, cursors, primary_index, big_word, mode) ==
    ThenMerge(Collected(content, cursors, primary_index,
                        BroadcastMotion(motion, cursors, content, big_word, mode)))

\* generate_cursor_methods!(no_merge ...): MultiCursor::adjust_for_mode
BatchAdjustForMode(content, cursors, primary_index, mode) ==
    Collected(content, cursors, primary_index,
              [i \in DOMAIN cursors |-> adjust_for_mode(cursors[i], content, mode)])

\* add_cursor after cursor.move_to(pos, ...): push, then merge
PushCursor(content, cursors, primary_index, r) ==
    IF r.fault # "none" THEN Outcome(content, cursors, primary_index, r.fault)
    ELSE Merged(content, merge_overlapping(Append(cursors, r.cur), primary_index))

\* MultiCursor::add_cursor
add_cursor(content, cursors, primary_index, pos) ==
    PushCursor(content, cursors, primary_index,
               move_to(NewCursor, pos, None, FALSE, content))

\* clear_secondary_cursors as it would be if the first cursor were kept
ClearKeepsFirst(content, cursors, primary_index) ==
    IF Len(cursors) > 1
    THEN Outcome(content, <<cursors[1]>>, 0, "none")
    ELSE Outcome(content, cursors, primary_index, "none")

\* MultiCursor::clear_secondary_cursors
clear_secondary_cursors(content, cursors, primary_index) ==
    IF Len(cursors) > 1
    THEN Outcome(content, <<cursors[primary_index + 1]>>, 0, "none")
    ELSE Outcome(content, cursors, primary_index, "none")

\* RefreshCursor as it would be if the stale offset were left alone
RefreshCursorKeepsOffset(cur, content) == NoMove(cur)

\* one cursor's turn in MultiCursor::refresh_positions
RefreshCursor(cur, content) ==
    LET pos == position(cur) IN
    IF pos.line >= len_lines(content) \/ pos.col > grapheme_len(content, pos.line)
    THEN Panic(cur, "grapheme_col_to_offset")
    ELSE LET correct_offset == grapheme_col_to_offset(content, pos.line, pos.col) IN
         IF pos.offset # correct_offset
         THEN move_to(cur, Pos(pos.line, pos.col, correct_offset), None, FALSE, content)
         ELSE NoMove(cur)

\* refresh_positions as it would be if it moved every cursor to its line and
\* column, whether or not the offset was stale
RefreshMovesEveryCursor(content, cursors, primary_index) ==
    Collected(content, cursors, primary_index,
              [i \in DOMAIN cursors |->
                  LET pos == position(cursors[i]) IN
                  IF pos.line >= len_lines(content) \/ pos.col > grapheme_len(content, pos.line)
                  THEN Panic(cursors[i], "grapheme_col_to_offset")
                  ELSE move_to(cursors[i],
                               Pos(pos.line, pos.col,
                                   grapheme_col_to_offset(content, pos.line, pos.col)),
                               None, FALSE, content)])

\* MultiCursor::refresh_positions
refresh_positions(content, cursors, primary_index) ==
    Collected(content, cursors, primary_index,
              [i \in DOMAIN cursors |-> RefreshCursor(cursors[i], content)])

\* ------------------------------------------------------------------------
\* Buffer: batch edits
\* ------------------------------------------------------------------------

\* multi_cursor_operation!: the cursor indices (1-based here) in the order in
\* which the cursors are edited; sort_by_key is stable
RECURSIVE InsertIndex(_, _, _, _)
InsertIndex(order, i, cursors, descending) ==
    IF order = <<>> THEN <<i>>
    ELSE LET h == cursors[Head(order)].active.offset
             k == cursors[i].active.offset
             stays == IF descending THEN h >= k ELSE h <= k
         IN IF stays THEN <<Head(order)>> \o InsertIndex(Tail(order), i, cursors, descending)
            ELSE <<i>> \o order

RECURSIVE OrderUpTo(_, _, _)
OrderUpTo(cursors, n, descending) ==
    IF n = 0 THEN <<>>
    ELSE InsertIndex(OrderUpTo(cursors, n - 1, descending), n, cursors, descending)

\* the order as it would be if both arms of the macro sorted ascending
EditOrderAscending(cursors, descending) == OrderUpTo(cursors, Len(cursors), FALSE)

EditOrder(cursors, descending) == OrderUpTo(cursors, Len(cursors), descending)

\* ShouldUpdate as it would be if only deletions were rebased
ShouldUpdateDeletionsOnly(offset, modification_offset, offset_delta) ==
    offset_delta <= 0 /\ offset > modification_offset

\* should_update of update_cursors_after_modification
ShouldUpdate(offset, modification_offset, offset_delta) ==
    IF offset_delta > 0 THEN offset >= modification_offset
    ELSE offset > modification_offset

\* RebaseCursor as it would be if should_update were true of every cursor
RebaseEveryCursor(cur, content, modification_offset, offset_delta) ==
    LET off == position(cur).offset IN
    IF offset_delta <= 0 /\ off < -offset_delta THEN Panic(cur, "underflow")
    ELSE IF off + offset_delta > Len(content) THEN Panic(cur, "char_to_line")
    ELSE IF ~validate_position(content, CharPos(content, off + offset_delta))
    THEN Panic(cur, "validate_position")
    ELSE move_to(cur, CharPos(content, off + offset_delta), None, FALSE, content)

\* one cursor's turn in update_cursors_after_modification
RebaseCursor(cur, content, modification_offset, offset_delta) ==
    LET off == position(cur).offset IN
    IF ~ShouldUpdate(off, modification_offset, offset_delta) THEN NoMove(cur)
    ELSE IF offset_delta <= 0 /\ off < -offset_delta THEN Panic(cur, "underflow")
    ELSE LET new_offset == off + offset_delta IN
         IF new_offset > Len(content) THEN Panic(cur, "char_to_line")
         ELSE LET updated_pos == CharPos(content, new_offset) IN
              IF ~validate_position(content, updated_pos)
              THEN Panic(cur, "validate_position")
              ELSE move_to(cur, updated_pos, None, FALSE, content)

\* the cursors once the loop of update_cursors_after_modification has run
Rebased(results) ==
    [cursors |-> [i \in DOMAIN results |-> results[i].cur],
     fault |-> FirstFault(results)]

\* update_cursors_after_modification as it would be if no cursor were rebased
UpdateNothing(content, cursors, modification_offset, offset_delta, skip_cursor_idx) ==
    [cursors |-> cursors, fault |-> "none"]

\* Buffer::update_cursors_after_modification: the cursors afterwards and the
\* panic that ended it, if any
update_cursors_after_modification(content, cursors, modification_offset, offset_delta, skip_cursor_idx) ==
    Rebased([i \in DOMAIN cursors |->
                IF i = skip_cursor_idx THEN NoMove(cursors[i])
                ELSE RebaseCursor(cursors[i], content, modification_offset, offset_delta)])

\* the state a batch edit works on
EditState(content, cursors, fault) ==
    [content |-> content, cursors |-> cursors, fault |-> fault]

\* the state after self.update_cursors_after_modification(...) returned u
AfterRebase(st, new_content, u) ==
    IF u.fault # "none" THEN EditState(st.content, st.cursors, u.fault)
    ELSE EditState(new_content, u.cursors, "none")

\* the rebase of the other cursors once the edited cursor's move_to gave r
RebaseAfterMove(st, new_content, idx, modification_offset, offset_delta, r) ==
    IF r.fault # "none" THEN EditState(st.content, st.cursors, r.fault)
    ELSE AfterRebase(st, new_content,
             update_cursors_after_modification(new_content,
                 [st.cursors EXCEPT ![idx] = r.cur],
                 modification_offset, offset_delta, idx))

\* the end of every loop body: the edited cursor moves to new_pos, then the
\* other cursors are rebased
MoveAndRebase(st, new_content, idx, new_pos, update_preferred_col, modification_offset, offset_delta) ==
    RebaseAfterMove(st, new_content, idx, modification_offset, offset_delta,
        move_to(st.cursors[idx], new_pos, None, update_preferred_col, new_content))

\* the loop body of Buffer::insert_text; s is the inserted text
InsertTextAt(st, idx, s) ==
    LET pos == position(st.cursors[idx])
        new_content == RopeInsert(st.content, pos.offset, s)
        char_count == Len(s)
        new_offset == pos.offset + char_count
        new_pos == IF \E i \in DOMAIN s : s[i] = NL
                   THEN CharPos(new_content, new_offset)
                   ELSE Pos(pos.line, pos.col + GraphemeCount(s), new_offset)
    IN IF ~validate_position(st.content, pos)
       THEN EditState(st.content, st.cursors, "validate_position")
       ELSE IF ~validate_position(new_content, new_pos)
       THEN EditState(st.content, st.cursors, "validate_position")
       ELSE MoveAndRebase(st, new_content, idx, new_pos, TRUE, pos.offset, char_count)

\* the loop body of Buffer::insert_char
InsertCharAt(st, idx, c) ==
    LET pos == position(st.cursors[idx])
        new_content == RopeInsert(st.content, pos.offset, <<c>>)
        new_pos == Pos(pos.line, pos.col + 1, pos.offset + 1)
    IN IF ~validate_position(st.content, pos)
       THEN EditState(st.content, st.cursors, "validate_position")
       ELSE IF ~validate_position(new_content, new_pos)
       THEN EditState(st.content, st.cursors, "validate_position")
       ELSE MoveAndRebase(st, new_content, idx, new_pos, TRUE, pos.offset, 1)

\* the loop body of Buffer::insert_newline
InsertNewlineAt(st, idx) ==
    LET pos == position(st.cursors[idx])
        new_content == RopeInsert(st.content, pos.offset, <<NL>>)
        new_line == pos.line + 1
        new_pos == Pos(new_line, 0, line_to_char(new_content, new_line))
    IN IF pos.offset > Len(st.content)
       THEN EditState(st.content, st.cursors, "insert_char")
       ELSE IF new_line > len_lines(new_content)
       THEN EditState(st.content, st.cursors, "line_to_char")
       ELSE IF ~validate_position(new_content, new_pos)
       THEN EditState(st.content, st.cursors, "validate_position")
       ELSE MoveAndRebase(st, new_content, idx, new_pos, TRUE, pos.offset, 1)

\* the loop body of Buffer::backspace
BackspaceAt(st, idx) ==
    LET pos == position(st.cursors[idx]) IN
    IF pos.offset = 0 THEN st
    ELSE IF ~validate_offset(st.content, pos.offset)
    THEN EditState(st.content, st.cursors, "validate_offset")
    ELSE LET start == prev_grapheme_offset(st.content, pos.offset)
             deleted_len == pos.offset - start
             new_content == RopeRemove(st.content, start, pos.offset)
             new_pos == CharPos(new_content, start)
         IN IF ~validate_position(new_content, new_pos)
            THEN EditState(st.content, st.cursors, "validate_position")
            ELSE MoveAndRebase(st, new_content, idx, new_pos, TRUE, start, -deleted_len)

\* the loop body of Buffer::delete: the edited cursor is not moved
DeleteAt(st, idx) ==
    LET pos == position(st.cursors[idx]) IN
    IF ~validate_offset(st.content, pos.offset)
    THEN EditState(st.content, st.cursors, "validate_offset")
    ELSE LET end == next_grapheme_offset(st.content, pos.offset)
             deleted_len == end - pos.offset
             new_content == RopeRemove(st.content, pos.offset, end)
         IN AfterRebase(st, new_content,
                update_cursors_after_modification(new_content, st.cursors,
                    pos.offset, -deleted_len, idx))

\* the loop body of Buffer::delete_selection
DeleteSelectionAt(st, idx) ==
    LET range == get_selection_range(st.cursors[idx])
        start == range[1]
        end == range[2]
    IN IF ~validate_position(st.content, start) \/ ~validate_position(st.content, end)
       THEN EditState(st.content, st.cursors, "validate_position")
       ELSE LET del_start == start.offset
                del_end == next_grapheme_offset(st.content, end.offset)
                new_content == RopeRemove(st.content, del_start, del_end)
                new_pos == CharPos(new_content, del_start)
            IN MoveAndRebase(st, new_content, idx, new_pos, FALSE,
                             del_start, -(del_end - del_start))

Edits ==
    {"insert_char", "insert_text", "insert_newline",
     "backspace", "delete", "delete_selection"}

Insertions == {"insert_char", "insert_text", "insert_newline"}

\* one cursor's edit, by name; text is the inserted text
EditAt(edit, st, idx, text) ==
    CASE edit = "insert_char" -> InsertCharAt(st, idx, text[1])
      [] edit = "insert_text" -> InsertTextAt(st, idx, text)
      [] edit = "insert_newline" -> InsertNewlineAt(st, idx)
      [] edit = "backspace" -> BackspaceAt(st, idx)
      [] edit = "delete" -> DeleteAt(st, idx)
      [] edit = "delete_selection" -> DeleteSelectionAt(st, idx)

\* for $idx in cursor_indices { $body }: a panic ends the loop
RECURSIVE EditLoop(_, _, _, _)
EditLoop(edit, st, order, text) ==
    IF order = <<>> \/ st.fault # "none" THEN st
    ELSE EditLoop(edit, EditAt(edit, st, Head(order), text), Tail(order), text)

\* a panic leaves the buffer and the cursors as they were before the call
OrFault(content, cursors, primary_index, out) ==
    IF out.fault # "none" THEN Outcome(content, cursors, primary_index, out.fault)
    ELSE out

\* what follows the loop of a batch edit: mc.refresh_positions(self) in the
\* deleting edits
AfterLoop(edit, content, cursors, primary_index, st) ==
    IF st.fault # "none" THEN Outcome(content, cursors, primary_index, st.fault)
    ELSE IF edit \in Insertions
    THEN Outcome(st.content, st.cursors, primary_index, "none")
    ELSE OrFault(content, cursors, primary_index,
                 refresh_positions(st.content, st.cursors, primary_index))

\* Buffer::insert_char, insert_text, insert_newline, backspace, delete and
\* delete_selection: insertions run in ascending, deletions in descending
\* offset order, and the deletions end with refresh_positions
BatchEdit(edit, content, cursors, primary_index, text) ==
    AfterLoop(edit, content, cursors, primary_index,
              EditLoop(edit, EditState(content, cursors, "none"),
                       EditOrder(cursors, edit \notin Insertions), text))

\* ------------------------------------------------------------------------
\* MultiCursor: the cursors handed out to the caller (apply_to_all,
\* all_cursors_mut, primary_mut)
\* ------------------------------------------------------------------------

\* every TextPosition validate_position accepts
ValidPositions(buf) ==
    {Pos(lc[1], lc[2], grapheme_col_to_offset(buf, lc[1], lc[2])) :
        lc \in {x \in (0..(len_lines(buf) - 1)) \X (0..Len(buf)) :
                  x[2] <= grapheme_len(buf, x[1])}}

\* Cursor::collapse_selection
collapse_selection(cur) == [cur EXCEPT !.anchor = cur.active]

\* the calls of a public Cursor method a caller makes on a cursor it was
\* handed, each with its arguments: collapse_selection(), move_left(buffer,
\* Normal) and move_to to the start of the buffer, keeping the cursor's
\* anchor (keep_anchor) or passing None
CursorCalls ==
    {[method |-> m, big_word |-> FALSE, mode |-> "Normal", dest |-> Pos(0, 0, 0),
      keep_anchor |-> FALSE, update_preferred_col |-> FALSE] :
        m \in {"collapse_selection", "move_left"}}
    \cup
    {[method |-> "move_to", big_word |-> FALSE, mode |-> "Normal", dest |-> Pos(0, 0, 0),
      keep_anchor |-> k, update_preferred_col |-> TRUE] : k \in BOOLEAN}

\* f(&mut cursor): one call of a Cursor method
CursorCall(call, cur, content) ==
    CASE call.method \in Motions ->
           CursorMotion(call.method, cur, content, call.big_word, call.mode)
      [] call.method = "adjust_for_mode" -> adjust_for_mode(cur, content, call.mode)
      [] call.method = "collapse_selection" -> NoMove(collapse_selection(cur))
      [] call.method = "move_to" ->
           move_to(cur, call.dest, IF call.keep_anchor THEN Some(cur.anchor) ELSE None,
                   call.update_preferred_col, content)

\* the loop of apply_to_all and the merge after it: the cursors are called in
\* the order of indices, and the first panic in that order ends the program
CalledInOrder(content, cursors, primary_index, results, indices) ==
    IF FirstFault([k \in DOMAIN indices |-> results[indices[k]]]) # "none"
    THEN Outcome(content, cursors, primary_index,
                 FirstFault([k \in DOMAIN indices |-> results[indices[k]]]))
    ELSE ThenMerge(Outcome(content, [i \in DOMAIN cursors |-> results[i].cur],
                           primary_index, "none"))

\* MultiCursor::apply_to_all: indices sorted by offset (stable) and walked
\* from the back, then merge_overlapping
apply_to_all(content, cursors, primary_index, call) ==
    CalledInOrder(content, cursors, primary_index,
                  [i \in DOMAIN cursors |-> CursorCall(call, cursors[i], content)],
                  [k \in DOMAIN cursors |->
                      OrderUpTo(cursors, Len(cursors), FALSE)[Len(cursors) + 1 - k]])

\* a caller holding all_cursors_mut() or primary_mut() calls a method on the
\* cursors at the indices of called; nothing is merged
CallOn(content, cursors, primary_index, call, called) ==
    Collected(content, cursors, primary_index,
              [i \in DOMAIN cursors |->
                  IF i \in called THEN CursorCall(call, cursors[i], content)
                  ELSE NoMove(cursors[i])])

\* ------------------------------------------------------------------------
\* KeyEngine and Keymap: from a key event to at most one action
\* ------------------------------------------------------------------------

\* KeyEvent: Key { key, text, modifiers }, Esc, Backspace or Enter. key is
\* Some(s) for Key::Character(s) and None for a named key; s and the text are
\* sequences of characters
KeyEvents ==
    {[kind |-> k, key |-> None, text |-> None,
      control |-> FALSE, alt |-> FALSE, shift |-> FALSE] :
        k \in {"Esc", "Backspace", "Enter"}}
    \cup
    {[kind |-> "Key", key |-> k, text |-> t, control |-> c, alt |-> a, shift |-> sh] :
        k \in {None} \cup {Some(<<ch>>) :
                 ch \in {"h", "w", "g", "x", "i", "v", "d", "y", "c", "z", "W"}},
        t \in {None, Some(<<>>), Some(<<"z">>)},
        c \in BOOLEAN, a \in BOOLEAN, sh \in BOOLEAN}

\* enum Action: the variant and its fields; the count of a Move or an
\* Operate is always 1
Action(kind, arg) == [kind |-> kind, arg |-> arg]

\* Keymap::key_to_string
key_to_string(key) ==
    IF key.kind # "Key" THEN <<>>
    ELSE LET to_lowercase(ch) == IF ch = "W" THEN "w" ELSE ch
             mods == (IF key.control THEN <<"<", "C", "-">> ELSE <<>>)
                     \o (IF key.alt THEN <<"<", "A", "-">> ELSE <<>>)
                     \o (IF key.shift THEN <<"<", "S", "-">> ELSE <<>>)
             s == IF key.key = None THEN mods
                  ELSE mods \o [i \in DOMAIN key.key[1] |-> to_lowercase(key.key[1][i])]
             closed == IF Len(s) > 1 /\ s[1] = "<" THEN Append(s, ">") ELSE s
         IN IF Len(closed) \in 1..2 /\ closed[Len(closed)] = ">" THEN <<>> ELSE closed

\* Keymap::setup_defaults: self.bindings
DefaultBindings ==
    {[mode |-> "Normal", keys |-> b[1], type |-> b[2], action |-> b[3]] : b \in {
        <<<<"h">>, "KeyMotion", Action("Move", <<"CharLeft">>)>>,
        <<<<"j">>, "KeyMotion", Action("Move", <<"CharDown">>)>>,
        <<<<"k">>, "KeyMotion", Action("Move", <<"CharUp">>)>>,
        <<<<"l">>, "KeyMotion", Action("Move", <<"CharRight">>)>>,
        <<<<"w">>, "KeyMotion", Action("Move", <<"NextWordStart", "false">>)>>,
        <<<<"<", "S", "-", "w", ">">>, "KeyMotion", Action("Move", <<"NextWordStart", "true">>)>>,
        <<<<"b">>, "KeyMotion", Action("Move", <<"PrevWord", "false">>)>>,
        <<<<"<", "S", "-", "b", ">">>, "KeyMotion", Action("Move", <<"PrevWord", "true">>)>>,
        <<<<"e">>, "KeyMotion", Action("Move", <<"NextWordEnd", "false">>)>>,
        <<<<"<", "S", "-", "e", ">">>, "KeyMotion", Action("Move", <<"NextWordEnd", "true">>)>>,
        <<<<"i">>, "Command", Action("ChangeMode", <<"Insert">>)>>,
        <<<<"v">>, "Command", Action("ChangeMode", <<"Visual">>)>>,
        <<<<"x">>, "Command", Action("Delete", <<>>)>>,
        <<<<".">>, "Command", Action("RepeatLast", <<>>)>>,
        <<<<"d">>, "KeyOperator", Action("Operator", <<"Delete">>)>>,
        <<<<"y">>, "KeyOperator", Action("Operator", <<"Yank">>)>>,
        <<<<"c">>, "KeyOperator", Action("Operator", <<"Change">>)>>,
        <<<<"<", "S", "-", "c", ">">>, "Command", Action("AddCursor", <<>>)>>,
        <<<<"<", "S", "-", "r", ">">>, "Command", Action("RemoveSecondaryCursors", <<>>)>>,
        <<<<"<", "C", "-", "v", ">">>, "AppCommand", Action("App", <<"SplitVertical">>)>>,
        <<<<"<", "C", "-", "h", ">">>, "AppCommand", Action("App", <<"SplitHorizontal">>)>>,
        <<<<"<", "C", "-", "w", ">">>, "AppCommand", Action("App", <<"CloseSplit">>)>>,
        <<<<"<", "C", "-", "q", ">">>, "AppCommand", Action("App", <<"Quit">>)>>,
        <<<<"g", "g">>, "Custom", Action("Move", <<"ToLineStart">>)>>}}

\* Keymap::create_action: the EngineAction of a binding, or the panic of
\* todo!() for an operator
create_action(binding) ==
    IF binding.type = "KeyOperator" THEN [ret |-> None, fault |-> "todo"]
    ELSE [ret |-> Some(binding.action), fault |-> "none"]

\* Keymap::handle_key with count None
KeymapHandleKey(multi_key_buffer, mode, key) ==
    LET key_str == key_to_string(key)
        pushed == multi_key_buffer \o key_str
        exact == {b \in DefaultBindings : b.mode = mode /\ b.keys = pushed}
        has_partial == \E b \in DefaultBindings :
                           /\ b.mode = mode
                           /\ Len(pushed) <= Len(b.keys)
                           /\ SubSeq(b.keys, 1, Len(pushed)) = pushed
    IN IF key_str = <<>>
       THEN [multi_key_buffer |-> multi_key_buffer, ret |-> None, fault |-> "none"]
       ELSE IF exact # {}
       THEN LET result == create_action(CHOOSE b \in exact : TRUE)
            IN IF result.fault # "none"
               THEN [multi_key_buffer |-> pushed, ret |-> None, fault |-> result.fault]
               ELSE [multi_key_buffer |-> <<>>, ret |-> result.ret, fault |-> "none"]
       ELSE IF ~has_partial
       THEN [multi_key_buffer |-> <<>>, ret |-> None, fault |-> "none"]
       ELSE [multi_key_buffer |-> pushed, ret |-> None, fault |-> "none"]

\* Motion::from_hjkl
from_hjkl(c) ==
    CASE c = "h" -> Some(<<"CharLeft">>)
      [] c = "j" -> Some(<<"CharDown">>)
      [] c = "k" -> Some(<<"CharUp">>)
      [] c = "l" -> Some(<<"CharRight">>)
      [] c = "w" -> Some(<<"NextWordStart", "false">>)
      [] c = "W" -> Some(<<"NextWordStart", "true">>)
      [] c = "b" -> Some(<<"PrevWord", "false">>)
      [] c = "B" -> Some(<<"PrevWord", "true">>)
      [] c = "e" -> Some(<<"NextWordEnd", "false">>)
      [] c = "E" -> Some(<<"NextWordEnd", "true">>)
      [] OTHER -> None

\* Operator::from_char
from_char(c) ==
    CASE c = "d" -> Some("Delete")
      [] c = "y" -> Some("Yank")
      [] c = "c" -> Some("Change")
      [] OTHER -> None

\* KeyEngine::default
KeyEngineDefault == [mode |-> "Normal", multi_key_buffer |-> <<>>, last_edit |-> None]

\* KeyEngine::handle_key: the engine after the call, the action returned and
\* the panic if any
handle_key(self, key) ==
    LET done(e, ret) == [engine |-> e, ret |-> ret, fault |-> "none"]
        panic(why) == [engine |-> self, ret |-> None, fault |-> why]
    IN
    IF self.mode = "Insert" THEN
        CASE key.kind = "Esc" ->
               done([self EXCEPT !.mode = "Normal"], Some(Action("ChangeMode", <<"Normal">>)))
          [] key.kind = "Backspace" -> done(self, Some(Action("Backspace", <<>>)))
          [] key.kind = "Enter" -> done(self, Some(Action("InsertNewline", <<>>)))
          [] OTHER ->
               IF key.text # None /\ key.text[1] # <<>>
               THEN done([self EXCEPT !.last_edit =
                              Some(Action("InsertChar", <<key.text[1][Len(key.text[1])]>>))],
                         Some(Action("InsertText", key.text[1])))
               ELSE IF key.key # None /\ Len(key.key[1]) = 1 /\ key.key[1][1] # NL
               THEN done([self EXCEPT !.last_edit = Some(Action("InsertChar", key.key[1]))],
                         Some(Action("InsertChar", key.key[1])))
               ELSE done(self, None)
    ELSE LET r == KeymapHandleKey(self.multi_key_buffer, self.mode, key)
             kept == [self EXCEPT !.multi_key_buffer = r.multi_key_buffer]
         IN
         IF r.fault # "none" THEN panic(r.fault)
         ELSE IF self.mode = "Normal" THEN
             IF r.ret = None THEN done(kept, None)
             ELSE IF r.ret[1].kind \in {"InsertChar", "Operate"}
             THEN done([kept EXCEPT !.last_edit = r.ret], r.ret)
             ELSE IF r.ret[1].kind = "ChangeMode"
             THEN done([kept EXCEPT !.mode = r.ret[1].arg[1]], r.ret)
             ELSE done(kept, r.ret)
         ELSE \* Visual
             IF r.ret # None
             THEN done(IF r.ret[1].kind = "DeleteSelection"
                       THEN [kept EXCEPT !.mode = "Normal"] ELSE kept, r.ret)
             ELSE IF key.kind = "Key" /\ key.key # None /\ key.key[1] = <<>>
             THEN panic("unwrap")
             ELSE IF key.kind = "Key" /\ key.key # None /\ from_hjkl(key.key[1][1]) # None
             THEN done(kept, Some(Action("Move", from_hjkl(key.key[1][1])[1])))
             ELSE IF key.kind = "Key" /\ key.key # None /\ from_char(key.key[1][1]) # None
             THEN done([kept EXCEPT !.mode = "Normal"],
                       Some(Action("Operate", <<from_char(key.key[1][1])[1], "CharRight">>)))
             ELSE IF key.kind = "Esc"
             THEN done([kept EXCEPT !.mode = "Normal"],
                       Some(Action("ChangeMode", <<"Normal">>)))
             ELSE done(kept, None)

\* ------------------------------------------------------------------------
\* The editing session: a buffer and its cursor set under the public
\* operations
\* ------------------------------------------------------------------------

VARIABLES
    content,        \* Buffer.content
    cursors,        \* MultiCursor.cursors
    primary_index,  \* MultiCursor.primary_index (0-based)
    fault,          \* "none", or the panic that ended the program
    steps,          \* operations issued so far
    last,           \* the last operation and the state it was issued in
    engine          \* KeyEngine: mode, keymap.multi_key_buffer, last_edit

vars == <<content, cursors, primary_index, fault, steps, last, engine>>

\* the characters of the initial buffers and the typed characters and texts
BufferChars == {"a", NL, Acute}
TypedChars == {"X", Acute}
TypedTexts == {<<NL, "X">>}

RECURSIVE SeqsUpTo(_, _)
SeqsUpTo(S, n) ==
    IF n = 0 THEN {<<>>}
    ELSE LET shorter == SeqsUpTo(S, n - 1)
         IN shorter \cup {Append(s, c) : s \in {x \in shorter : Len(x) = n - 1}, c \in S}

\* the operation issued, its arguments (pos is given by add_cursor and
\* move_to and kept over the motions repeated after a move_to, anchor by
\* move_to alone), the value it returned and the state it was issued in;
\* for one turn of the loop of a batch edit, idx is the cursor edited and
\* order the cursor indices still to come; method is the Cursor method
\* called through apply_to_all, all_cursors_mut or primary_mut
Record(op, mode, big_word, text, ret) ==
    [op |-> op, mode |-> mode, big_word |-> big_word, text |-> text, ret |-> ret,
     pos |-> None, anchor |-> None, idx |-> None, order |-> <<>>, method |-> None,
     content |-> content, cursors |-> cursors, primary_index |-> primary_index]

\* Buffer::new, MultiCursor::new
Init ==
    /\ content \in SeqsUpTo(BufferChars, MaxInitLen)
    /\ cursors = <<NewCursor>>
    /\ primary_index = 0
    /\ fault = "none"
    /\ steps = 0
    /\ engine = KeyEngineDefault
    /\ last = Record("new", "Normal", FALSE, <<>>, None)

Running == fault = "none" /\ steps < MaxSteps

\* an operation returns, or panics and leaves the fault behind
Apply(out, op, mode, big_word, text) ==
    /\ content' = out.content
    /\ cursors' = out.cursors
    /\ primary_index' = out.primary_index
    /\ fault' = out.fault
    /\ steps' = steps + 1
    /\ last' = Record(op, mode, big_word, text, None)
    /\ UNCHANGED engine

Move(motion, big_word, mode) ==
    /\ Running
    /\ Apply(BatchMotion(motion, content, cursors, primary_index, big_word, mode),
             motion, mode, big_word, <<>>)

MoveLeft == \E mode \in Modes : Move("move_left", FALSE, mode)
MoveRight == \E mode \in Modes : Move("move_right", FALSE, mode)
MoveUp == \E mode \in Modes : Move("move_up", FALSE, mode)
MoveDown == \E mode \in Modes : Move("move_down", FALSE, mode)
MoveWordForward ==
    \E mode \in Modes, big_word \in BOOLEAN : Move("move_word_forward", big_word, mode)
MoveWordBackward ==
    \E mode \in Modes, big_word \in BOOLEAN : Move("move_word_backward", big_word, mode)
MoveWordEnd ==
    \E mode \in Modes, big_word \in BOOLEAN : Move("move_word_end", big_word, mode)

Edit(edit, text) ==
    /\ Running
    /\ Len(content) + Len(cursors) * Len(text) <= MaxLen
    /\ Apply(BatchEdit(edit, content, cursors, primary_index, text),
             edit, "Insert", FALSE, text)

InsertChar == \E c \in TypedChars : Edit("insert_char", <<c>>)
InsertText == \E s \in TypedTexts : Edit("insert_text", s)
InsertNewline == Edit("insert_newline", <<NL>>)
Backspace == Edit("backspace", <<>>)
Delete == Edit("delete", <<>>)
DeleteSelection == Edit("delete_selection", <<>>)

\* mc.add_cursor(pos, buffer) returns, or panics and leaves the fault behind
ApplyAddCursor(out, pos) ==
    /\ Len(out.cursors) <= MaxCursors
    /\ content' = out.content
    /\ cursors' = out.cursors
    /\ primary_index' = out.primary_index
    /\ fault' = out.fault
    /\ steps' = steps + 1
    /\ last' = [Record("add_cursor", "Normal", FALSE, <<>>, None) EXCEPT !.pos = Some(pos)]
    /\ UNCHANGED engine

AddCursor ==
    /\ Running
    /\ \E pos \in ValidPositions(content) :
          ApplyAddCursor(add_cursor(content, cursors, primary_index, pos), pos)

ClearSecondaryCursors ==
    /\ Running
    /\ Apply(clear_secondary_cursors(content, cursors, primary_index),
             "clear_secondary_cursors", "Normal", FALSE, <<>>)

AdjustForMode ==
    /\ Running
    /\ \E mode \in Modes :
          Apply(BatchAdjustForMode(content, cursors, primary_index, mode),
                "adjust_for_mode", mode, FALSE, <<>>)

\* a call made through a handed-out cursor returns, or panics
ApplyCall(out, op, call) ==
    /\ content' = out.content
    /\ cursors' = out.cursors
    /\ primary_index' = out.primary_index
    /\ fault' = out.fault
    /\ steps' = steps + 1
    /\ last' = [Record(op, call.mode, call.big_word, <<>>, None)
                  EXCEPT !.method = Some(call.method), !.pos = Some(call.dest)]
    /\ UNCHANGED engine

ApplyToAll ==
    /\ Running
    /\ \E call \in CursorCalls :
          ApplyCall(apply_to_all(content, cursors, primary_index, call), "apply_to_all", call)

AllCursorsMut ==
    /\ Running
    /\ \E call \in CursorCalls, called \in SUBSET (DOMAIN cursors) :
          /\ called # {}
          /\ ApplyCall(CallOn(content, cursors, primary_index, call, called),
                       "all_cursors_mut", call)

PrimaryMut ==
    /\ Running
    /\ \E call \in CursorCalls :
          ApplyCall(CallOn(content, cursors, primary_index, call, {primary_index + 1}),
                    "primary_mut", call)

Next ==
    \/ MoveLeft \/ MoveRight \/ MoveUp \/ MoveDown
    \/ MoveWordForward \/ MoveWordBackward \/ MoveWordEnd
    \/ InsertChar \/ InsertText \/ InsertNewline
    \/ Backspace \/ Delete \/ DeleteSelection
    \/ AddCursor \/ ClearSecondaryCursors \/ AdjustForMode
    \/ ApplyToAll \/ AllCursorsMut \/ PrimaryMut

Spec == Init /\ [][Next]_vars

\* ------------------------------------------------------------------------
\* Properties of the session
\* ------------------------------------------------------------------------

Returned == fault = "none"

Distinct(offsets) ==
    \A i, j \in DOMAIN offsets : i # j => offsets[i] # offsets[j]

SortedOffsets(offsets) ==
    \A i, j \in DOMAIN offsets : i < j => offsets[i] <= offsets[j]

\* C1: after any sequence of public operations from a fresh cursor set, every
\* cursor's active position has line < line count, col <= grapheme_len(line)
\* and offset = grapheme_col_to_offset(line, col).
C1_ActivePositionsValid ==
    Returned => \A i \in DOMAIN cursors : validate_position(content, cursors[i].active)

\* a delete that returned after joining a combining mark to the character
\* before the deleting cursor: the cursor's offset moved with the cluster
C1_Witness ==
    /\ Returned
    /\ last.op = "delete"
    /\ Len(content) < Len(last.content)
    /\ \E i \in DOMAIN cursors :
          /\ cursors[i].active.col = last.cursors[i].active.col
          /\ cursors[i].active.offset > last.cursors[i].active.offset

\* C2: from pairwise distinct active offsets, every batch edit that returns
\* leaves the active offsets pairwise distinct.
C2_EditsKeepOffsetsDistinct ==
    (Returned /\ last.op \in Edits /\ Distinct(Offsets(last.cursors)))
        => Distinct(Offsets(cursors))

\* C3: after a batch motion returns, the cursors are sorted by active offset
\* and no two share an active offset.
C3_MotionsSortAndMerge ==
    (Returned /\ last.op \in Motions)
        => SortedOffsets(Offsets(cursors)) /\ Distinct(Offsets(cursors))

\* a batch motion brought two cursors to one offset and one cursor is left
C3_Witness ==
    /\ Returned
    /\ last.op \in Motions
    /\ Distinct(Offsets(last.cursors))
    /\ Len(last.cursors) = 2
    /\ Len(cursors) = 1

\* the buffer after inserting s at each of the offsets, the rightmost first
RECURSIVE InsertRightToLeft(_, _, _)
InsertRightToLeft(buf, offsets, s) ==
    IF offsets = {} THEN buf
    ELSE LET m == CHOOSE o \in offsets : \A x \in offsets : x <= o
         IN InsertRightToLeft(RopeInsert(buf, m, s), offsets \ {m}, s)

OffsetSet(cs) == {cs[i].active.offset : i \in DOMAIN cs}

\* C4: with the cursors at pairwise distinct offsets, the buffer a batch
\* insert_text(s) or insert_char produces is the buffer obtained by inserting
\* s at each original offset, from the rightmost offset to the leftmost.
C4_BatchInsertIsRightToLeft ==
    (Returned /\ last.op \in {"insert_char", "insert_text"}
              /\ Distinct(Offsets(last.cursors)))
        => content = InsertRightToLeft(last.content, OffsetSet(last.cursors), last.text)

\* a two-character text was inserted at two cursors
C4_Witness ==
    /\ Returned
    /\ last.op = "insert_text"
    /\ Len(last.cursors) = 2
    /\ Distinct(Offsets(last.cursors))
    /\ Len(content) = Len(last.content) + 2 * Len(last.text)

\* the number of cursors that started at or before cursor i
Rank(cs, i) ==
    Cardinality({j \in DOMAIN cs : cs[j].active.offset <= cs[i].active.offset})

\* C5: after batch insert_char(c) on cursors at distinct offsets
\* o_1 < ... < o_k, the cursor that started at o_i is at offset o_i + i and
\* the character before it is c.
C5_InsertCharAdvancesEachCursor ==
    (Returned /\ last.op = "insert_char" /\ Distinct(Offsets(last.cursors)))
        => /\ Len(cursors) = Len(last.cursors)
           /\ \A i \in DOMAIN cursors :
                LET o == last.cursors[i].active.offset + Rank(last.cursors, i)
                IN /\ cursors[i].active.offset = o
                   /\ char_at(content, o - 1) = last.text[1]

\* a character was typed at two cursors, the second of them on another line
C5_Witness ==
    /\ Returned
    /\ last.op = "insert_char"
    /\ Len(cursors) = 2
    /\ Distinct(Offsets(last.cursors))
    /\ cursors[1].active.line # cursors[2].active.line

AllPositionsValid(buf, cs) ==
    \A i \in DOMAIN cs :
        validate_position(buf, cs[i].anchor) /\ validate_position(buf, cs[i].active)

PlainText(s) == \A i \in DOMAIN s : s[i] \notin ExtendChars

\* C6: no batch edit faults on a cursor set whose anchors and actives are all
\* valid positions, selections that overlap or nest included (stated for text
\* without combining marks, where columns and character counts agree).
C6_BatchEditsNeverFault ==
    (last.op \in Edits /\ AllPositionsValid(last.content, last.cursors)
                       /\ PlainText(last.content) /\ PlainText(last.text))
        => Returned

\* the active offset of the primary cursor when merge_overlapping is entered
PrimaryBeforeMerge ==
    IF last.op \in Motions
    THEN CursorMotion(last.op, last.cursors[last.primary_index + 1], last.content,
                      last.big_word, last.mode).cur
    ELSE last.cursors[last.primary_index + 1]

\* C9: after a merge (a batch motion or add_cursor) the cursor at
\* primary_index has the active offset the primary cursor had just before
\* the merge; a cursor at that offset always survives.
C9_PrimaryOffsetSurvivesMerge ==
    (Returned /\ last.op \in Motions \cup {"add_cursor"})
        => /\ primary_index < Len(cursors)
           /\ cursors[primary_index + 1].active.offset = PrimaryBeforeMerge.active.offset

\* a merge ran on a set whose primary was not the first cursor, and a cursor
\* was dropped
C9_Witness ==
    /\ Returned
    /\ last.op \in Motions
    /\ last.primary_index = 1
    /\ Len(cursors) < Len(last.cursors)

\* C10: after a batch motion in which the primary lands on the offset of
\* another cursor, the cursor at primary_index has the anchor, active position
\* and preferred_column the primary had just before the merge.
C10_PrimaryCursorSurvivesMerge ==
    (Returned /\ last.op \in Motions) => cursors[primary_index + 1] = PrimaryBeforeMerge

\* C11: add_cursor(pos) with a valid pos at the active offset of an existing
\* cursor leaves the number of cursors unchanged; with a valid pos at an
\* offset no cursor occupies, the number of cursors grows by exactly one and
\* a cursor with active = pos exists afterwards.
C11_AddCursorCountsByOffset ==
    (Returned /\ last.op = "add_cursor")
        => IF last.pos[1].offset \in OffsetSet(last.cursors)
           THEN Len(cursors) = Len(last.cursors)
           ELSE /\ Len(cursors) = Len(last.cursors) + 1
                /\ \E i \in DOMAIN cursors : cursors[i].active = last.pos[1]

\* C12: merging a cursor set that a merge produced changes nothing: the
\* cursor sequence and primary_index are the same after the second merge.
C12_MergeIsIdempotent ==
    (Returned /\ last.op \in Motions \cup {"add_cursor"})
        => LET again == merge_overlapping(cursors, primary_index)
           IN again.cursors = cursors /\ again.primary_index = primary_index

\* a merge left two cursors, the primary not the first of them
C12_Witness ==
    /\ Returned
    /\ last.op \in Motions \cup {"add_cursor"}
    /\ Len(cursors) = 2
    /\ primary_index = 1

\* C13: clear_secondary_cursors leaves exactly one cursor, equal to the
\* cursor that was primary before the call, sets primary_index to 0 and does
\* not change the buffer.
C13_ClearKeepsPrimaryOnly ==
    (Returned /\ last.op = "clear_secondary_cursors")
        => /\ Len(cursors) = 1
           /\ cursors[1] = last.cursors[last.primary_index + 1]
           /\ primary_index = 0
           /\ content = last.content

\* the secondary cursors were cleared when the primary was the second cursor
C13_Witness ==
    /\ Returned
    /\ last.op = "clear_secondary_cursors"
    /\ Len(last.cursors) = 2
    /\ last.primary_index = 1

\* the only cursor of the state the last operation was issued in
Sole == last.cursors[1]

\* C14: for a single cursor at column 0 of a line L > 0, backspace removes
\* the line terminator that ends line L-1 and nothing else, the line count
\* drops by one, and the cursor ends on line L-1 at the column equal to the
\* grapheme length line L-1 had before the call.
C14_BackspaceJoinsLines ==
    (last.op = "backspace" /\ Len(last.cursors) = 1
        /\ validate_position(last.content, Sole.active)
        /\ Sole.active.col = 0 /\ Sole.active.line > 0)
        => /\ Returned
           /\ char_at(last.content, Sole.active.offset - 1) = NL
           /\ content = RopeRemove(last.content, Sole.active.offset - 1, Sole.active.offset)
           /\ len_lines(content) = len_lines(last.content) - 1
           /\ cursors[1].active.line = Sole.active.line - 1
           /\ cursors[1].active.col = grapheme_len(last.content, Sole.active.line - 1)

\* C15: for a single cursor with anchor # active, delete_selection removes
\* exactly the characters from the smaller of the two offsets up to and
\* including the grapheme at the larger offset and leaves the cursor
\* collapsed at the offset where the removed range started.
C15_DeleteSelectionRemovesInclusiveRange ==
    (last.op = "delete_selection" /\ Len(last.cursors) = 1 /\ has_selection(Sole)
        /\ AllPositionsValid(last.content, last.cursors))
        => LET lo == Min(Sole.anchor.offset, Sole.active.offset)
               hi == Max(Sole.anchor.offset, Sole.active.offset)
           IN /\ Returned
              /\ content = RopeRemove(last.content, lo,
                                       next_grapheme_offset(last.content, hi))
              /\ cursors[1].anchor = cursors[1].active
              /\ cursors[1].active.offset = lo

\* C16: for every valid (line, col), the line and column the edit and rebase
\* code derives from grapheme_col_to_offset(line, col) (the line containing
\* the offset, the offset minus the line's start) are line and col again.
C16_ColumnRoundTrip ==
    \A pos \in ValidPositions(content) :
        LET back == CharPos(content, pos.offset)
        IN back.line = pos.line /\ back.col = pos.col

\* the offsets at which a grapheme cluster of the buffer starts or the
\* buffer ends
Boundaries(buf) == GraphemeStarts(buf) \cup {Len(buf)}

\* C17: for every offset o > 0 that is a grapheme-cluster boundary,
\* next_grapheme_offset(prev_grapheme_offset(o)) = o, also when the cluster
\* before o has more than one character.
C17_NextOfPrevIsIdentity ==
    \A o \in Boundaries(content) \ {0} :
        next_grapheme_offset(content, prev_grapheme_offset(content, o)) = o

\* a boundary behind a cluster of two characters
C17_Witness ==
    \E o \in Boundaries(content) \ {0} :
        /\ o - prev_grapheme_offset(content, o) = 2
        /\ next_grapheme_offset(content, prev_grapheme_offset(content, o)) = o

\* some cluster of the buffer has more than one character
MultiCharCluster(buf) == \E i \in DOMAIN buf : JoinsPrev(buf, i)

\* C18: on a line with a cluster of more than one character, the column an
\* edit or a rebase gives a cursor is the number of clusters before it, so
\* no position assertion fails and every cursor is left at a valid position.
C18_EditColumnsCountClusters ==
    (last.op \in {"backspace", "insert_text", "delete_selection"}
        /\ MultiCharCluster(last.content)
        /\ AllPositionsValid(last.content, last.cursors))
        => /\ fault # "validate_position"
           /\ Returned => \A i \in DOMAIN cursors :
                               validate_position(content, cursors[i].active)

\* the largest column a motion in the mode may reach on a line of n clusters
MaxColumn(n, mode) == IF mode = "Insert" THEN n ELSE Max(n - 1, 0)

\* the line a vertical move of the sole cursor goes to
VerticalTarget ==
    IF last.op = "move_up" THEN Sole.active.line - 1 ELSE Sole.active.line + 1

\* C20: for a cursor whose preferred_column is p, a successful move_up or
\* move_down lands on the adjacent line at column min(p, maximum column of
\* that line for the mode) and leaves preferred_column equal to p, so a
\* chain of vertical moves returns to column p on a line long enough.
C20_VerticalMovesKeepPreferredColumn ==
    (last.op \in {"move_up", "move_down"} /\ Len(last.cursors) = 1
        /\ Sole.preferred_column # None
        /\ VerticalTarget >= 0 /\ VerticalTarget < len_lines(last.content))
        => /\ Returned
           /\ cursors[1].active.line = VerticalTarget
           /\ cursors[1].active.col =
                  Min(Sole.preferred_column[1],
                      MaxColumn(grapheme_len(last.content, VerticalTarget), last.mode))
           /\ cursors[1].preferred_column = Sole.preferred_column

\* a vertical move came back to the preferred column from a shorter line
C20_Witness ==
    /\ Returned
    /\ last.op \in {"move_up", "move_down"}
    /\ Len(last.cursors) = 1
    /\ Sole.preferred_column # None
    /\ Sole.active.col < Sole.preferred_column[1]
    /\ cursors[1].active.col = Sole.preferred_column[1]
    /\ cursors[1].active.line # Sole.active.line

\* ------------------------------------------------------------------------
\* One motion of one cursor: every buffer up to MotionMaxLen characters,
\* the cursor at every valid position, one call of a Cursor motion
\* ------------------------------------------------------------------------

MotionChars == {"a", ".", " ", NL, Acute}

\* the cursors tried: collapsed or with the selection anchored at the start
\* of the buffer, with and without a preferred column
MotionCursors(buf) ==
    UNION {{[anchor |-> a, active |-> p, preferred_column |-> c] :
                a \in {p, Pos(0, 0, 0)},
                c \in {None, Some(0), Some(MotionMaxLen)}} :
           p \in ValidPositions(buf)}

MotionInit ==
    /\ content \in SeqsUpTo(MotionChars, MotionMaxLen)
    /\ cursors \in {<<c>> : c \in MotionCursors(content)}
    /\ primary_index = 0
    /\ fault = "none"
    /\ steps = 0
    /\ engine = KeyEngineDefault
    /\ last = Record("new", "Normal", FALSE, <<>>, None)

\* the call cursor.motion(buffer, ...) and the value it returns
CursorMove(motion, big_word, mode) ==
    /\ last.op = "new"
    /\ LET r == CursorMotion(motion, cursors[1], content, big_word, mode)
       IN /\ cursors' = <<r.cur>>
          /\ fault' = r.fault
          /\ last' = Record(motion, mode, big_word, <<>>, r.ret)
    /\ steps' = steps + 1
    /\ UNCHANGED <<content, primary_index, engine>>

\* one disjunct per motion: move_left, move_right, move_up, move_down,
\* move_word_forward, move_word_backward, move_word_end
MotionNext ==
    \/ \E mode \in Modes : CursorMove("move_left", FALSE, mode)
    \/ \E mode \in Modes : CursorMove("move_right", FALSE, mode)
    \/ \E mode \in Modes : CursorMove("move_up", FALSE, mode)
    \/ \E mode \in Modes : CursorMove("move_down", FALSE, mode)
    \/ \E mode \in Modes, big_word \in BOOLEAN :
          CursorMove("move_word_forward", big_word, mode)
    \/ \E mode \in Modes, big_word \in BOOLEAN :
          CursorMove("move_word_backward", big_word, mode)
    \/ \E mode \in Modes, big_word \in BOOLEAN :
          CursorMove("move_word_end", big_word, mode)

SpecMotion == MotionInit /\ [][MotionNext]_vars

\* C7: every single-cursor motion invoked at a valid position, the start of
\* the buffer, the end of a line and the end of the buffer included, completes
\* without a fault and returns none or a valid position (stated for text
\* without combining marks).
C7_MotionsNeverFault ==
    (last.op \in Motions /\ PlainText(last.content)
                         /\ validate_position(last.content, last.cursors[1].active))
        => /\ Returned
           /\ last.ret = None \/ validate_position(content, last.ret[1])

\* C19: move_right from column c on a line of n clusters moves to column
\* c + 1 of the same line exactly when c < n in Insert mode and exactly when
\* c < max(n - 1, 0) in Normal or Visual mode, and returns none otherwise;
\* move_left moves to column c - 1 of the same line exactly when c > 0.
C19_HorizontalMovesByMode ==
    (last.op \in {"move_left", "move_right"}
        /\ validate_position(last.content, Sole.active))
        => LET c == Sole.active.col
               n == grapheme_len(last.content, Sole.active.line)
               can == IF last.op = "move_right" THEN c < MaxColumn(n, last.mode)
                      ELSE c > 0
               to == IF last.op = "move_right" THEN c + 1 ELSE c - 1
           IN /\ Returned
              /\ IF can
                 THEN /\ last.ret # None
                      /\ cursors[1].active.line = Sole.active.line
                      /\ cursors[1].active.col = to
                 ELSE last.ret = None

\* move_right in Normal mode returned none on the last of two or more
\* clusters, where Insert mode would have moved
C19_Witness ==
    /\ Returned
    /\ last.op = "move_right"
    /\ last.mode = "Normal"
    /\ last.ret = None
    /\ grapheme_len(last.content, Sole.active.line) >= 2
    /\ Sole.active.col = grapheme_len(last.content, Sole.active.line) - 1

\* C8: a motion that returns none leaves the cursor's anchor, active position
\* and preferred_column as they were before the call.
C8_NoMoveLeavesCursorUnchanged ==
    (last.op \in Motions /\ Returned /\ last.ret = None)
        => cursors[1] = last.cursors[1]

\* a motion returned none on a cursor that carries a selection and a
\* preferred column
C8_Witness ==
    /\ Returned
    /\ last.op \in Motions
    /\ last.ret = None
    /\ has_selection(last.cursors[1])
    /\ last.cursors[1].preferred_column # None

\* C37: in Visual mode a successful move_left, move_right, move_up,
\* move_down, move_word_backward or move_word_end leaves the anchor as it was;
\* in Normal and Insert mode a successful move_left, move_right, move_up or
\* move_down leaves the cursor collapsed (anchor = active).
C37_VisualKeepsAnchorOthersCollapse ==
    (last.op \in Motions /\ Returned /\ last.ret # None)
        => /\ (last.mode = "Visual" /\ last.op # "move_word_forward")
                => cursors[1].anchor = last.cursors[1].anchor
           /\ (last.mode \in {"Normal", "Insert"}
                  /\ last.op \in {"move_left", "move_right", "move_up", "move_down"})
                => cursors[1].anchor = cursors[1].active

\* a Visual motion moved a collapsed cursor and left the anchor behind
C37_Witness ==
    /\ Returned
    /\ last.op \in Motions \ {"move_word_forward"}
    /\ last.mode = "Visual"
    /\ last.ret # None
    /\ ~has_selection(last.cursors[1])
    /\ cursors[1].anchor = last.cursors[1].anchor
    /\ cursors[1].anchor # cursors[1].active

\* self.cursors on entry to merge_overlapping: the cursors moved by the batch
\* motion, or the cursors followed by the one add_cursor pushed
PreMerge ==
    IF last.op \in Motions
    THEN [i \in DOMAIN last.cursors |->
            CursorMotion(last.op, last.cursors[i], last.content, last.big_word, last.mode).cur]
    ELSE Append(last.cursors, move_to(NewCursor, last.pos[1], None, FALSE, last.content).cur)

\* the first index of seq whose cursor has active offset off
FirstAt(seq, off) ==
    CHOOSE i \in DOMAIN seq :
        /\ seq[i].active.offset = off
        /\ \A j \in 1..(i - 1) : seq[j].active.offset # off

\* C30: after a batch motion or add_cursor, every active offset the cursors
\* had on entry to the merge is held by exactly one cursor, and that cursor
\* is the earliest of the sequence before the merge with that offset: its
\* anchor and preferred_column are kept.
C30_MergeKeepsEarliest ==
    (Returned /\ last.op \in Motions \cup {"add_cursor"}) =>
        /\ Distinct(Offsets(cursors))
        /\ \A j \in DOMAIN PreMerge :
              \E k \in DOMAIN cursors :
                  /\ cursors[k].active.offset = PreMerge[j].active.offset
                  /\ cursors[k] = PreMerge[FirstAt(PreMerge, PreMerge[j].active.offset)]
        /\ \A k \in DOMAIN cursors :
              \E j \in DOMAIN PreMerge : cursors[k] = PreMerge[j]

\* two cursors that differ in anchor or preferred_column came to the same
\* active offset and one was dropped
C30_Witness ==
    /\ Returned
    /\ last.op \in Motions \cup {"add_cursor"}
    /\ Len(cursors) < Len(PreMerge)
    /\ \E i, j \in DOMAIN PreMerge :
          /\ i < j
          /\ PreMerge[i].active.offset = PreMerge[j].active.offset
          /\ PreMerge[i] # PreMerge[j]

\* C26: after any sequence of motions and batch edits that returned, both
\* positions get_selection_range returns are valid for every cursor: no
\* anchor is left pointing past text an edit removed.
C26_SelectionEndpointsValid ==
    Returned =>
        \A i \in DOMAIN cursors :
            /\ validate_position(content, get_selection_range(cursors[i])[1])
            /\ validate_position(content, get_selection_range(cursors[i])[2])

\* C31: after adjust_for_mode returns on a cursor set whose active offsets
\* are pairwise distinct, the active offsets are still pairwise distinct.
C31_AdjustForModeKeepsOffsetsDistinct ==
    (last.op = "adjust_for_mode" /\ Returned /\ Distinct(Offsets(last.cursors)))
        => Distinct(Offsets(cursors))

\* every cursor of cs sits on a character of its line in buf, or at column
\* 0 of an empty line
OnCharacter(buf, cs) ==
    \A i \in DOMAIN cs :
        /\ cs[i].active.line < len_lines(buf)
        /\ cs[i].active.col <= Max(grapheme_len(buf, cs[i].active.line) - 1, 0)

\* C32: in Normal mode, a motion or a delete issued on cursors that each
\* sit on a character leaves, when it returns, every cursor on a character
\* of its line; from the new buffer, whose cursor is at (0,0), this holds after
\* every sequence of Normal-mode motions and deletes.
C32_NormalCursorsStayOnCharacters ==
    (/\ Returned
     /\ last.op \in Motions \cup {"delete"}
     /\ last.op \in Motions => last.mode = "Normal"
     /\ OnCharacter(last.content, last.cursors))
        => OnCharacter(content, cursors)

\* buf without the grapheme before each offset of the set offs
RECURSIVE RemoveBefore(_, _)
RemoveBefore(buf, offs) ==
    IF offs = {} THEN buf
    ELSE LET o == CHOOSE x \in offs : \A y \in offs : y <= x
         IN RemoveBefore(RopeRemove(buf, prev_grapheme_offset(buf, o), o), offs \ {o})

\* C33: a batch backspace on cursors of pairwise distinct offsets, one of
\* them at offset 0, returns; the cursor at offset 0 stays at offset 0 and
\* removes nothing, every other cursor removes exactly the grapheme before
\* it; with a single cursor at offset 0 the buffer and the cursor are
\* unchanged.
C33_BackspaceAtStartRemovesNothing ==
    (/\ last.op = "backspace"
     /\ Distinct(Offsets(last.cursors))
     /\ \E i \in DOMAIN last.cursors : last.cursors[i].active.offset = 0)
        => /\ Returned
           /\ content = RemoveBefore(last.content,
                            {last.cursors[i].active.offset : i \in DOMAIN last.cursors} \ {0})
           /\ Len(cursors) = Len(last.cursors)
           /\ \A i \in DOMAIN last.cursors :
                 last.cursors[i].active.offset = 0 => cursors[i].active.offset = 0
           /\ Len(last.cursors) = 1 => cursors = last.cursors

\* the offsets of buf that the inclusive selection of cursor cur covers
SelectedOffsets(buf, cur) ==
    get_selection_range(cur)[1].offset ..
        (next_grapheme_offset(buf, get_selection_range(cur)[2].offset) - 1)

\* buf without the characters at the offsets of the set gone
RECURSIVE KeepOutside(_, _)
KeepOutside(buf, gone) ==
    IF buf = <<>> THEN <<>>
    ELSE IF (Len(buf) - 1) \in gone
    THEN KeepOutside(SubSeq(buf, 1, Len(buf) - 1), gone)
    ELSE Append(KeepOutside(SubSeq(buf, 1, Len(buf) - 1), gone), buf[Len(buf)])

\* the inclusive selection ranges of the cursors of cs do not meet
DisjointSelections(cs) ==
    \A i, j \in DOMAIN cs :
        i # j => \/ get_selection_range(cs[i])[2].offset < get_selection_range(cs[j])[1].offset
                 \/ get_selection_range(cs[j])[2].offset < get_selection_range(cs[i])[1].offset

\* C34: delete_selection on several cursors whose inclusive selection
\* ranges are pairwise disjoint returns with the buffer equal to the
\* original without the union of the ranges, and with each cursor collapsed
\* at the offset where its range started less the number of characters
\* removed before it.
C34_DisjointSelectionsDeleteIndependently ==
    (/\ last.op = "delete_selection"
     /\ Len(last.cursors) >= 2
     /\ DisjointSelections(last.cursors))
        => /\ Returned
           /\ content = KeepOutside(last.content,
                            UNION {SelectedOffsets(last.content, last.cursors[i]) : i \in DOMAIN last.cursors})
           /\ Len(cursors) = Len(last.cursors)
           /\ \A i \in DOMAIN last.cursors :
                 /\ cursors[i].anchor = cursors[i].active
                 /\ cursors[i].active.offset =
                        get_selection_range(last.cursors[i])[1].offset
                        - Cardinality({o \in UNION {SelectedOffsets(last.content, last.cursors[j]) : j \in DOMAIN last.cursors} :
                                          o < get_selection_range(last.cursors[i])[1].offset})

\* C36: prev_grapheme_offset(0) is 0 and next_grapheme_offset(len_chars) is
\* len_chars; for every valid offset o, prev_grapheme_offset(o) <= o <=
\* next_grapheme_offset(o), and both results are valid offsets.
C36_GraphemeOffsetsSaturateAndBracket ==
    /\ prev_grapheme_offset(content, 0) = 0
    /\ next_grapheme_offset(content, len_chars(content)) = len_chars(content)
    /\ \A o \in 0..len_chars(content) :
          /\ prev_grapheme_offset(content, o) <= o
          /\ o <= next_grapheme_offset(content, o)
          /\ prev_grapheme_offset(content, o) \in 0..len_chars(content)
          /\ next_grapheme_offset(content, o) \in 0..len_chars(content)

\* an offset inside a cluster of two characters: both neighbours are one
\* character away, on the two ends of the cluster
C36_Witness ==
    \E o \in 1..(len_chars(content) - 1) :
        /\ o \notin Boundaries(content)
        /\ prev_grapheme_offset(content, o) = o - 1
        /\ next_grapheme_offset(content, o) = o + 1

\* C39: after any sequence of batch motions, batch edits, add_cursor,
\* clear_secondary_cursors and adjust_for_mode the cursor set has at least
\* one cursor and primary_index is an index into it.
C39_PrimaryIndexInRange ==
    /\ Len(cursors) >= 1
    /\ primary_index \in 0..(Len(cursors) - 1)

\* a batch motion merged two cursors of which the second was the primary
C39_Witness ==
    /\ Returned
    /\ last.op \in Motions
    /\ last.primary_index = 1
    /\ Len(last.cursors) = 2
    /\ Len(cursors) = 1
    /\ primary_index = 0

\* ------------------------------------------------------------------------
\* Cursor::move_to called directly on a new cursor, as the tests of
\* cursor.rs call it, with any destination
\* ------------------------------------------------------------------------

\* the call cursor.move_to(dest, MoveOpts { anchor, update_preferred_col },
\* buffer); the destinations tried have every line up to one past the last,
\* every column up to one past the longest possible line and every offset
CursorMoveTo ==
    /\ last.op = "new"
    /\ \E dest \in {Pos(l, c, o) : l \in 0..len_lines(content), c \in 0..(Len(content) + 1), o \in 0..Len(content)}, anchor \in {None, Some(Pos(0, 0, 0))}, update_preferred_col \in BOOLEAN :
          LET r == move_to(cursors[1], dest, anchor, update_preferred_col, content)
          IN /\ cursors' = <<r.cur>>
             /\ fault' = r.fault
             /\ last' = [Record("move_to", "Normal", FALSE, <<>>, r.ret) EXCEPT !.pos = Some(dest), !.anchor = anchor]
    /\ steps' = steps + 1
    /\ UNCHANGED <<content, primary_index, engine>>

SpecMoveTo == Init /\ [][CursorMoveTo]_vars

\* the destination with its line clamped to the last line, its column to
\* the grapheme length of that line, and the offset of that line and column
Clamped(buf, dest) ==
    LET line == Min(dest.line, len_lines(buf) - 1)
        col == Min(dest.col, grapheme_len(buf, line))
    IN Pos(line, col, grapheme_col_to_offset(buf, line, col))

OutOfRange(buf, dest) ==
    \/ dest.line >= len_lines(buf)
    \/ dest.col > grapheme_len(buf, Min(dest.line, len_lines(buf) - 1))

\* C21: move_to called with a destination whose line is past the last line,
\* or whose column is past the grapheme length of its line, returns with the
\* active position set to the clamped destination (line clamped to the last
\* line, column to that line's grapheme length, offset recomputed) and the
\* anchor set to the supplied anchor, or to the clamped destination when
\* none is supplied.
C21_MoveToClampsDestination ==
    (last.op = "move_to" /\ OutOfRange(last.content, last.pos[1]))
        => /\ Returned
           /\ cursors[1].active = Clamped(last.content, last.pos[1])
           /\ cursors[1].anchor =
                  (IF last.anchor = None THEN Clamped(last.content, last.pos[1])
                   ELSE last.anchor[1])

\* the last cluster of the line of cursor cur in buffer buf
LastCluster(buf, cur) ==
    Pos(cur.active.line, grapheme_len(buf, cur.active.line) - 1,
        grapheme_col_to_offset(buf, cur.active.line,
                               grapheme_len(buf, cur.active.line) - 1))

PastLastCluster(buf, cur) ==
    /\ grapheme_len(buf, cur.active.line) > 0
    /\ cur.active.col >= grapheme_len(buf, cur.active.line)

\* C22: adjust_for_mode returns; in Normal mode it moves every cursor whose
\* column is at or past the grapheme length of a non-empty line onto the
\* last cluster of that line (column grapheme_len - 1 and its offset); a
\* cursor already on a character, a cursor on an empty line, and every
\* cursor when the mode is not Normal, is left unchanged.
C22_AdjustForModePullsBackInNormal ==
    (last.op = "adjust_for_mode")
        => /\ Returned
           /\ Len(cursors) = Len(last.cursors)
           /\ \A i \in DOMAIN last.cursors :
                 IF last.mode = "Normal" /\ PastLastCluster(last.content, last.cursors[i])
                 THEN cursors[i].active = LastCluster(last.content, last.cursors[i])
                 ELSE cursors[i] = last.cursors[i]

\* adjust_for_mode(Normal) pulled a cursor back from the end of a line of
\* two or more clusters
C22_Witness ==
    /\ Returned
    /\ last.op = "adjust_for_mode"
    /\ last.mode = "Normal"
    /\ \E i \in DOMAIN last.cursors :
          /\ PastLastCluster(last.content, last.cursors[i])
          /\ grapheme_len(last.content, last.cursors[i].active.line) >= 2
          /\ cursors[i].active.col = last.cursors[i].active.col - 1

\* ------------------------------------------------------------------------
\* The word-motion walks of the helix_parity tests: a cursor placed by
\* move_to on one of the tests' texts, then one word motion repeated
\* ------------------------------------------------------------------------

WalkMaxSteps == 17

\* the text of w_motion_matches_helix: the C sample, line 3 indented by a tab
WMotionText ==
    <<"#", "i", "n", "c", "l", "u", "d", "e", " ", "<", "s", "t", "d", "i",
      "o", ".", "h", ">", NL, NL, "i", "n", "t", " ", "m", "a", "i", "n",
      "(", ")", " ", "{", NL, "\t",
      "p", "r", "i", "n", "t", "f", "(", "\"", "h", "e", "l", "l", "o", " ",
      "w", "o", "r", "l", "d", "\"", ")", ";", NL, "}", NL>>

\* the text of b_motion_matches_helix: the C sample, line 3 indented by
\* four spaces
BMotionText ==
    <<"#", "i", "n", "c", "l", "u", "d", "e", " ", "<", "s", "t", "d", "i",
      "o", ".", "h", ">", NL, NL, "i", "n", "t", " ", "m", "a", "i", "n",
      "(", ")", " ", "{", NL, " ", " ", " ", " ",
      "p", "r", "i", "n", "t", "f", "(", "\"", "h", "e", "l", "l", "o", " ",
      "w", "o", "r", "l", "d", "\"", ")", ";", NL, "}", NL>>

\* the text of debug_word_movement
DebugText ==
    <<"i", "n", "t", " ", "m", "a", "i", "n", "(", ")", " ", "{", NL, " ",
      " ", " ", " ", "p", "r", "i", "n", "t", "f", "(", "\"", "h", "e", "l",
      "l", "o", " ", "w", "o", "r", "l", "d", "\"", ")", ";", NL, "}", NL>>

\* the text of visual_w_skips_leading_punct
IncludeLine ==
    <<"#", "i", "n", "c", "l", "u", "d", "e", " ", "<", "s", "t", "d", "i",
      "o", ".", "h", ">">>

\* Buffer::new(text), Cursor::new() and cursor.move_to(start, MoveOpts {
\* anchor: None, update_preferred_col: true }, &buffer); pos keeps the start
WalkInit ==
    /\ content \in {WMotionText, BMotionText, DebugText, IncludeLine}
    /\ cursors \in {<<move_to(NewCursor, start, None, TRUE, content).cur>> : start \in ValidPositions(content)}
    /\ primary_index = 0
    /\ fault = "none"
    /\ steps = 0
    /\ engine = KeyEngineDefault
    /\ last = [Record("new", "Normal", FALSE, <<>>, None) EXCEPT !.pos = Some(cursors[1].active)]

\* one more press of the walk's motion: the first press chooses the motion
\* and the mode, the later ones repeat them
WalkMove(motion, mode) ==
    /\ fault = "none"
    /\ steps < WalkMaxSteps
    /\ last.op = "new" \/ (last.op = motion /\ last.mode = mode)
    /\ LET r == CursorMotion(motion, cursors[1], content, FALSE, mode)
       IN /\ cursors' = <<r.cur>>
          /\ fault' = r.fault
          /\ last' = [Record(motion, mode, FALSE, <<>>, r.ret) EXCEPT !.pos = last.pos]
    /\ steps' = steps + 1
    /\ UNCHANGED <<content, primary_index, engine>>

WalkNext ==
    \/ \E mode \in Modes : WalkMove("move_word_forward", mode)
    \/ \E mode \in Modes : WalkMove("move_word_backward", mode)

SpecWalk == WalkInit /\ [][WalkNext]_vars

\* the call the walk repeats, from the walk's starting position on a text
Walked(text, motion, mode, line, col) ==
    /\ content = text
    /\ last.op = motion
    /\ last.mode = mode
    /\ last.pos = Some(Pos(line, col, grapheme_col_to_offset(text, line, col)))

\* the last press returned a position and the cursor is at (line, col)
LandedAt(lc) ==
    /\ Returned
    /\ last.ret # None
    /\ <<cursors[1].active.line, cursors[1].active.col>> = lc

WTable ==
    <<<<0, 8>>, <<0, 9>>, <<0, 14>>, <<0, 15>>, <<0, 16>>, <<0, 17>>,
      <<2, 3>>, <<2, 7>>, <<2, 10>>, <<2, 11>>, <<3, 0>>, <<3, 6>>,
      <<3, 8>>, <<3, 14>>, <<3, 19>>, <<3, 22>>, <<4, 0>>>>

\* C23: the small-word forward motion repeated in Normal mode over the C
\* sample with a tab indent, starting at (0,0), returns a position at each
\* of the 17 presses and lands on the rows of the table in order; and from
\* offset 7 of the text starting "int main() {" one press lands at (0,10).
C23_ForwardWalkMatchesTable ==
    /\ (Walked(WMotionText, "move_word_forward", "Normal", 0, 0) /\ steps \in DOMAIN WTable)
           => LandedAt(WTable[steps])
    /\ (Walked(DebugText, "move_word_forward", "Normal", 0, 7) /\ steps = 1)
           => LandedAt(<<0, 10>>)

\* the seventeenth press of the forward walk reached the closing brace
C23_Witness ==
    /\ Walked(WMotionText, "move_word_forward", "Normal", 0, 0)
    /\ steps = 17
    /\ LandedAt(<<4, 0>>)

BTable ==
    <<<<3, 23>>, <<3, 18>>, <<3, 12>>, <<3, 10>>, <<3, 4>>, <<3, 0>>,
      <<2, 11>>, <<2, 8>>, <<2, 4>>, <<2, 0>>, <<0, 17>>, <<0, 16>>,
      <<0, 15>>, <<0, 10>>, <<0, 9>>, <<0, 1>>, <<0, 0>>>>

\* C24: the small-word backward motion repeated in Normal mode over the C
\* sample with a four-space indent, starting on the closing brace at (4,0),
\* returns a position at each of the 17 presses and lands on the rows of
\* the table in order.
C24_BackwardWalkMatchesTable ==
    (Walked(BMotionText, "move_word_backward", "Normal", 4, 0) /\ steps \in DOMAIN BTable)
        => LandedAt(BTable[steps])

\* the seventeenth press of the backward walk reached the start of the text
C24_Witness ==
    /\ Walked(BMotionText, "move_word_backward", "Normal", 4, 0)
    /\ steps = 17
    /\ LandedAt(<<0, 0>>)

\* the text between the two offsets get_selection_range returns
SelectedText(buf, cur) ==
    Slice(buf, get_selection_range(cur)[1].offset, get_selection_range(cur)[2].offset)

\* C25: in the buffer "#include <stdio.h>", one small-word forward motion
\* in Visual mode from a collapsed cursor at column 0 leaves a selection
\* whose range, from the start offset up to and not including the end
\* offset of get_selection_range, is exactly "include".
C25_VisualWordSelectsInclude ==
    (Walked(IncludeLine, "move_word_forward", "Visual", 0, 0) /\ steps = 1)
        => /\ Returned
           /\ SelectedText(content, cursors[1]) = <<"i", "n", "c", "l", "u", "d", "e">>

\* ------------------------------------------------------------------------
\* A batch edit turn by turn: the loop of multi_cursor_operation! runs one
\* cursor's edit and the rebase of the others per step
\* ------------------------------------------------------------------------

StepMaxLen == 4

\* a cursor as motions leave it: any valid anchor and active position
StepCursors(buf) ==
    {[anchor |-> a, active |-> p, preferred_column |-> Some(p.col)] :
        a \in ValidPositions(buf), p \in ValidPositions(buf)}

\* a buffer and a cursor set in the middle of a session: one cursor, or one
\* cursor and a second one as add_cursor leaves it
StepInit ==
    /\ content \in SeqsUpTo(BufferChars, StepMaxLen)
    /\ cursors \in
          {<<c>> : c \in StepCursors(content)} \cup
          {<<c, move_to(NewCursor, p, None, FALSE, content).cur>> :
              c \in StepCursors(content), p \in ValidPositions(content)}
    /\ primary_index = 0
    /\ fault = "none"
    /\ steps = 0
    /\ engine = KeyEngineDefault
    /\ last = Record("new", "Insert", FALSE, <<>>, None)

\* for $idx in cursor_indices { $body }: the body has run for the head of
\* order and left st
StepApply(edit, text, order, st) ==
    /\ content' = st.content
    /\ cursors' = st.cursors
    /\ fault' = st.fault
    /\ steps' = steps + 1
    /\ last' = [Record(edit, "Insert", FALSE, text, None) EXCEPT !.idx = Some(Head(order)), !.order = Tail(order)]
    /\ UNCHANGED <<primary_index, engine>>

StepTurn(edit, text, order) ==
    StepApply(edit, text, order,
              EditAt(edit, EditState(content, cursors, "none"), Head(order), text))

\* the batch edit is called: the indices are sorted and the first cursor is
\* edited
StepBegin ==
    /\ last.op = "new"
    /\ \E edit \in Edits :
       \E text \in (IF edit = "insert_char" THEN {<<c>> : c \in TypedChars}
                    ELSE IF edit = "insert_text" THEN TypedTexts
                    ELSE IF edit = "insert_newline" THEN {<<NL>>} ELSE {<<>>}) :
          StepTurn(edit, text, EditOrder(cursors, edit \notin Insertions))

\* the loop goes on to the next index
StepContinue ==
    /\ last.op \in Edits
    /\ last.order # <<>>
    /\ fault = "none"
    /\ StepTurn(last.op, last.text, last.order)

\* mc.refresh_positions(self) once the loop of a deleting edit has ended
StepRefresh ==
    /\ last.op \in Edits \ Insertions
    /\ last.order = <<>>
    /\ fault = "none"
    /\ Apply(OrFault(content, cursors, primary_index,
                     refresh_positions(content, cursors, primary_index)),
             "refresh_positions", "Insert", FALSE, <<>>)

StepNext == StepBegin \/ StepContinue \/ StepRefresh

SpecStep == StepInit /\ [][StepNext]_vars

\* a turn of the loop has just run and returned
TurnReturned == last.op \in Edits /\ Returned

\* the cursor the turn edited, as it was before the turn
Edited == last.cursors[last.idx[1]]

\* the offset at which the turn changed the buffer
EditPoint ==
    CASE last.op \in Insertions -> Edited.active.offset
      [] last.op = "backspace" ->
            IF Edited.active.offset = 0 THEN 0
            ELSE prev_grapheme_offset(last.content, Edited.active.offset)
      [] last.op = "delete" -> Edited.active.offset
      [] last.op = "delete_selection" -> get_selection_range(Edited)[1].offset

\* the number of characters the turn inserted (positive) or removed (negative)
EditDelta == Len(content) - Len(last.content)

\* C27: within one batch edit the cursors are edited one per turn, each
\* exactly once: the cursor of a turn is not among those still to come,
\* which are distinct and as many as the turns left; and in offset order:
\* the insertions edit a cursor whose active offset is no larger, the
\* deletions one whose active offset is no smaller, than that of every
\* cursor still to come.
C27_EditsRunInOffsetOrder ==
    (last.op \in Edits) =>
        /\ last.idx # None
        /\ Len(last.order) = Len(last.cursors) - steps
        /\ \A k \in DOMAIN last.order :
              /\ last.order[k] \in (DOMAIN last.cursors) \ {last.idx[1]}
              /\ \A l \in DOMAIN last.order : k # l => last.order[k] # last.order[l]
              /\ IF last.op \in Insertions
                 THEN Edited.active.offset <= last.cursors[last.order[k]].active.offset
                 ELSE Edited.active.offset >= last.cursors[last.order[k]].active.offset

\* a deletion edited the second cursor first because its offset is larger
C27_Witness ==
    /\ TurnReturned
    /\ last.op = "delete"
    /\ last.idx = Some(2)
    /\ last.order = <<1>>
    /\ last.cursors[2].active.offset > last.cursors[1].active.offset
    /\ content # last.content

\* C28: after one cursor's edit at offset m, every other cursor whose active
\* offset was >= m (insertion of n characters) has its offset increased by
\* n, every other cursor whose active offset was > m (deletion of n
\* characters) has its offset decreased by n; the line and column of such
\* a cursor are those of its new offset, and the new offset is not below m.
C28_RebaseShiftsLaterCursors ==
    TurnReturned =>
        \A j \in (DOMAIN cursors) \ {last.idx[1]} :
            (IF last.op \in Insertions
             THEN last.cursors[j].active.offset >= EditPoint
             ELSE last.cursors[j].active.offset > EditPoint)
            => /\ cursors[j].active.offset = last.cursors[j].active.offset + EditDelta
               /\ validate_position(content, cursors[j].active)
               /\ cursors[j].active.offset >= EditPoint

\* C29: a turn of a batch edit leaves every other cursor whose active offset
\* is smaller than the offset at which the turn changes the buffer as it
\* was: anchor, active position and preferred_column.
C29_EarlierCursorsUntouched ==
    TurnReturned =>
        \A j \in (DOMAIN cursors) \ {last.idx[1]} :
            last.cursors[j].active.offset < EditPoint => cursors[j] = last.cursors[j]

\* a deletion changed the buffer behind another cursor that carries a
\* selection and a preferred column
C29_Witness ==
    /\ TurnReturned
    /\ last.op = "delete"
    /\ content # last.content
    /\ \E j \in (DOMAIN cursors) \ {last.idx[1]} :
          /\ last.cursors[j].active.offset < EditPoint
          /\ has_selection(last.cursors[j])
          /\ last.cursors[j].preferred_column # None

\* C35: refresh_positions, when it returns, has not changed the buffer nor
\* any cursor's line or column; every cursor's offset is then
\* grapheme_col_to_offset(line, col), and a cursor whose offset already was
\* keeps its anchor and preferred_column.
C35_RefreshRecomputesOffsetsOnly ==
    (last.op = "refresh_positions" /\ Returned) =>
        /\ content = last.content
        /\ Len(cursors) = Len(last.cursors)
        /\ \A i \in DOMAIN last.cursors :
              /\ cursors[i].active.line = last.cursors[i].active.line
              /\ cursors[i].active.col = last.cursors[i].active.col
              /\ cursors[i].active.offset =
                     grapheme_col_to_offset(content, cursors[i].active.line, cursors[i].active.col)
              /\ (last.cursors[i].active.offset =
                      grapheme_col_to_offset(content, cursors[i].active.line, cursors[i].active.col))
                    => cursors[i] = last.cursors[i]

\* refresh_positions corrected the offset of a cursor
C35_Witness ==
    /\ last.op = "refresh_positions"
    /\ Returned
    /\ \E i \in DOMAIN cursors : cursors[i].active.offset # last.cursors[i].active.offset

\* ------------------------------------------------------------------------
\* One word motion repeated on a cursor until it returns none
\* ------------------------------------------------------------------------

\* one more call of the repeated word motion: the first call chooses the
\* motion, the flavour and the mode, the later ones repeat them for as long
\* as the motion returns a position
RepeatMove(motion, big_word, mode) ==
    /\ fault = "none"
    /\ \/ last.op = "new"
       \/ /\ last.op = motion
          /\ last.big_word = big_word
          /\ last.mode = mode
          /\ last.ret # None
    /\ LET r == CursorMotion(motion, cursors[1], content, big_word, mode)
       IN /\ cursors' = <<r.cur>>
          /\ fault' = r.fault
          /\ last' = Record(motion, mode, big_word, <<>>, r.ret)
    /\ steps' = steps + 1
    /\ UNCHANGED <<content, primary_index, engine>>

RepeatNext ==
    \E motion \in WordMotions, mode \in Modes, big_word \in BOOLEAN :
        RepeatMove(motion, big_word, mode)

\* the caller's loop goes round once more: no call has aborted, the last one
\* returned a position, and one more call is counted
RepeatAgain ==
    /\ fault = "none"
    /\ last.op = "new" \/ last.ret # None
    /\ steps' = steps + 1

\* the caller keeps calling the motion for as long as it returns a position
SpecRepeat == MotionInit /\ [][RepeatNext]_vars /\ WF_steps(RepeatAgain)

\* a word motion that returned a position moved the cursor strictly forward,
\* move_word_backward strictly backward
WordMotionMoved ==
    (last.op \in WordMotions /\ Returned /\ last.ret # None)
        => LET from == last.cursors[1].active.offset
               to == last.ret[1].offset
           IN IF last.op = "move_word_backward" THEN to < from ELSE to > from

\* C38: a word motion that returns a position has moved (strictly forward
\* for move_word_forward and move_word_end, strictly backward for
\* move_word_backward); a repeated forward word motion eventually returns
\* none, and a repeated move_word_backward eventually reaches offset 0.
C38_WordMotionsProgressAndEnd ==
    /\ []WordMotionMoved
    /\ (last.op \in {"move_word_forward", "move_word_end"})
          ~> (Returned /\ last.ret = None)
    /\ (last.op = "move_word_backward")
          ~> (Returned /\ cursors[1].active.offset = 0)

\* ------------------------------------------------------------------------
\* The key engine alone: key events handed to KeyEngine::handle_key
\* ------------------------------------------------------------------------

KeysMaxSteps == 3

\* KeyEngine::default(); the buffer and the cursors play no part
KeysInit ==
    /\ content = <<>>
    /\ cursors = <<NewCursor>>
    /\ primary_index = 0
    /\ fault = "none"
    /\ steps = 0
    /\ engine = KeyEngineDefault
    /\ last = [op |-> "new", key |-> None, mode |-> "Normal", ret |-> None]

\* the call engine.handle_key(key) and what it returns
HandleKey ==
    /\ fault = "none"
    /\ steps < KeysMaxSteps
    /\ \E key \in KeyEvents :
          LET r == handle_key(engine, key)
          IN /\ engine' = r.engine
             /\ fault' = r.fault
             /\ last' = [op |-> "handle_key", key |-> Some(key),
                         mode |-> engine.mode, ret |-> r.ret]
    /\ steps' = steps + 1
    /\ UNCHANGED <<content, cursors, primary_index>>

SpecKeys == KeysInit /\ [][HandleKey]_vars

\* C40: in every mode, for every key event, KeyEngine::handle_key returns
\* (no action or one action) without aborting the program; this includes the
\* Normal-mode keys bound to operators (d, y, c) and a key that fails to
\* complete a pending multi-key sequence.
C40_HandleKeyNeverAborts ==
    (last.op = "handle_key") => Returned

====
